---- MODULE Spec2Model ----
(***************************************************************************)
(* Verification model of the tokeniser training core:                      *)
(*   - the inverted-index BPE learner (src/group.cpp),                     *)
(*   - the closeable work queue ThreadSafeQueue (src/include/tokenise.hpp),*)
(*   - the producer/consumer corpus reader (src/corpus.cpp).               *)
(*                                                                         *)
(* Strings are sequences of bytes (ASCII codes), so that concatenation,    *)
(* prefix tests and std::string's lexicographic order are computed and not *)
(* assumed.  97 = 'a', 98 = 'b', 65 = 'A', 66 = 'B', 44 = ',', 32 = ' ',   *)
(* and "</w>" = <<60, 47, 119, 62>>.                                       *)
(***************************************************************************)
EXTENDS Integers, Sequences, FiniteSets, TLC

\* ------------------------------------------------------------------ bounds
\* Longest BPE word drawn as a key of the word-frequency map.
MaxWordLen == 4
\* Largest num_merges drawn.
MaxMerges == 3
\* Items each producer of the queue harness pushes.
MaxPush == 2
\* Largest number of input files of the corpus reader.
MaxFiles == 2
\* Largest this->num_threads drawn (num_consumers = num_threads - 1, at least 1).
MaxThreads == 3
\* Lines per chunk; the program uses 10000, scaled down here.
CHUNK_SIZE == 2
\* The queue capacity the bounded-queue property is tested against; the
\* program's queue has no capacity member.
QueueCapacity == 2
\* Most symbols one splitWord call is followed for (it does not return when
\* the empty string is the matching token).
MaxSubwords == 8
\* Largest vocabulary for which every ordering std::sort may leave is drawn;
\* above it the two extreme orderings of equal lengths are drawn.
MaxPermuted == 9
\* Largest num_merges drawn for the sample corpus (its training ends by
\* itself after 15 merges).
MaxSampleMerges == 16

\* Longest word handed to the pre-splitter (besides the sample word).
MaxSplitLen == 5
\* num_merges of the runs that exhaust the pairs: more iterations than two
\* words of MaxWordLen letters can use
MaxExhaustMerges == 12
\* files and producers of the partition of the file list
MaxPartFiles == 5
MaxProducers == 3

VARIABLES
    \* ---- BPE learner (groupCommonTokensParallel)
    corpus_word_counts, \* W: the input word-frequency map
    num_merges,         \* the requested number of merges
    vocab,              \* std::set<std::string> vocab
    bpe_word_counts,    \* W': BPE-only word counts
    splits,             \* S: word -> sequence of symbols
    pair_stats,         \* P: pair -> int
    inverted_index,     \* I: pair -> sequence of words
    merge_i,            \* loop counter i of the merge loop
    lpc,                \* position of the learner
    final_vocab,        \* output vector final_vocab (and this->tokens)
    last_merge,         \* the pair merged by the latest completed iteration
    tokens,             \* this->tokens: the vocabulary the segmenter scans
    \* ---- ThreadSafeQueue
    queue_,             \* std::queue<T> queue_
    done_,              \* bool done_
    cv_waiters,         \* the threads blocked in cv_.wait
    cpc,                \* position of each consumer thread
    chunk,              \* each consumer's out-parameter `item` of wait_and_pop
    \* ---- queue test harness (several producers, repeated close)
    hpushed,            \* number of items each harness producer has pushed
    closes,             \* number of close() calls made
    delivered,          \* the items returned by wait_and_pop, in the order of the pops,
                        \* each with its caller and whether the queue was closed by then
    pushed_open,        \* the items pushed while the queue was not closed
    \* ---- corpus reader (buildCorpusWordCountsParallel)
    file_paths,         \* the input files: whether each opens, and its lines
    num_threads,        \* this->num_threads
    ppc,                \* position of the producer thread
    pfile,              \* index of the file the producer is at
    pline,              \* index of the next line std::getline returns
    chunk_buffer,       \* the producer's chunk_buffer
    files_completed_count, \* progress.files_completed_count
    dpc,                \* position of the driver (invoking) thread
    last_reported_count,\* the driver's last_reported_count
    progress_log,       \* the progress lines printed: the count each one reports
    dget,               \* index of the consumer future the driver gets next
    local_counts,       \* each consumer's local_counts
    final_counts,       \* the driver's final_counts
    \* ---- segmenter (splitSentence, splitWord)
    sentence,           \* the argument of splitSentence
    spc,                \* position of the segmenter
    pos,                \* position of the regex iterator in the sentence
    current_word,       \* splitWord's current_word
    word_subwords,      \* splitWord's output so far
    all_subwords,       \* splitSentence's output so far
    \* ---- persistence (calculateTokenStatsFromCounts, readFromFiles, constructor)
    statOfTokens,       \* this->statOfTokens: token -> repetitions
    token_stats_file,   \* the lines of _final_token_stats.csv
    instance,           \* which tokeniser holds `tokens`: the trained one or a reloaded one
    trained_subwords,   \* what the trained instance returned for the sentence
    \* ---- pre-splitter (pre_split_word)
    split_word,         \* the argument `word` of pre_split_word
    split_pc,           \* position of the pre-splitter
    split_start,        \* size_t start (0-based, as in the code)
    split_i,            \* the loop index i (0-based, as in the code)
    split_subtokens,    \* std::vector subtokens
    \* ---- the training program (main)
    mpc,                \* position of main
    exit_code,          \* the value main returns (-1 while it runs)
    artifacts,          \* the output files written so far
    \* ---- the partition of the file list (split_vector_for_producers)
    sv_files,           \* the argument `files`
    num_producers,      \* the argument num_producers
    sv_pc,              \* position of split_vector_for_producers
    sv_splits,          \* std::vector<std::vector<std::string>> splits
    current_file_idx,   \* size_t current_file_idx
    sv_i,               \* the loop index i
    sv_j                \* the loop index j

learnerVars == <<corpus_word_counts, num_merges, vocab, bpe_word_counts, splits,
                 pair_stats, inverted_index, merge_i, lpc, final_vocab, last_merge,
                 tokens>>

queueVars == <<queue_, done_, cv_waiters, cpc, chunk>>
harnessVars == <<hpushed, closes, delivered, pushed_open>>
readerVars == <<file_paths, num_threads, ppc, pfile, pline, chunk_buffer,
                files_completed_count, dpc, last_reported_count, progress_log,
                dget, local_counts, final_counts>>

segVars == <<sentence, spc, pos, current_word, word_subwords, all_subwords>>

storeVars == <<statOfTokens, token_stats_file, instance, trained_subwords>>

splitVars == <<split_word, split_pc, split_start, split_i, split_subtokens>>

mainVars == <<mpc, exit_code, artifacts>>

partVars == <<sv_files, num_producers, sv_pc, sv_splits, current_file_idx, sv_i, sv_j>>

vars == <<learnerVars, queueVars, harnessVars, readerVars, segVars, storeVars, splitVars,
          mainVars, partVars>>

\* Evaluated(F, e) is F(e), with e evaluated once before F uses it.
Evaluated(F(_), e) == CHOOSE r \in {F(v) : v \in {e}} : TRUE

\* ------------------------------------------------------------ byte strings
EOW == <<60, 47, 119, 62>>

IsUpper(c) == c \in 65..90
IsLower(c) == c \in 97..122
IsAlpha(c) == IsUpper(c) \/ IsLower(c)
IsSpace(c) == c \in {32, 9, 10, 11, 12, 13}
ToLower(c) == IF IsUpper(c) THEN c + 32 ELSE c

\* std::string operator< : lexicographic order on bytes.
RECURSIVE StrLess(_, _)
StrLess(s, t) ==
    IF t = <<>> THEN FALSE
    ELSE IF s = <<>> THEN TRUE
    ELSE IF Head(s) # Head(t) THEN Head(s) < Head(t)
    ELSE StrLess(Tail(s), Tail(t))

\* std::pair operator< on pairs of strings.
PairLess(p, q) ==
    \/ StrLess(p[1], q[1])
    \/ (p[1] = q[1] /\ StrLess(p[2], q[2]))

\* The elements of a std::set / keys of a std::map in iteration order.
RECURSIVE SortedStrings(_)
SortedStrings(S) ==
    IF S = {} THEN <<>>
    ELSE LET First(m) == <<m>> \o SortedStrings(S \ {m})
         IN  Evaluated(First, CHOOSE x \in S : \A y \in S \ {x} : StrLess(x, y))

RECURSIVE Concat(_)
Concat(symbols) ==
    IF symbols = <<>> THEN <<>> ELSE Head(symbols) \o Concat(Tail(symbols))

\* ---------------------------------------------------------- std::map helpers
MapGet(m, k) == IF k \in DOMAIN m THEN m[k] ELSE 0
MapPut(m, k, v) ==
    LET Put(mm) == [x \in (DOMAIN mm) \cup {k} |-> IF x = k THEN v ELSE mm[x]]
    IN  Evaluated(Put, m)
MapErase(m, k) ==
    LET Erase(mm) == [x \in (DOMAIN mm) \ {k} |-> mm[x]]
    IN  Evaluated(Erase, m)
EmptyMap == [x \in {} |-> 0]

\* pair_stats[p] += freq
StatsAdd(ps, p, freq) ==
    LET Add(m) == MapPut(m, p, MapGet(m, p) + freq)
    IN  Evaluated(Add, ps)

\* a decrement that keeps the entry whatever count is left, also the entry
\* that operator[] creates for a pair that had none
StatsSubKeeping(ps, p, freq) == MapPut(ps, p, MapGet(ps, p) - freq)
\* a decrement that erases the pair whatever count is left
StatsSubErasing(ps, p, freq) == MapErase(ps, p)
\* pair_stats[p] -= freq; if (pair_stats[p] <= 0) pair_stats.erase(p);
StatsSub(ps, p, freq) ==
    LET Sub(m) == IF MapGet(m, p) - freq <= 0 THEN MapErase(m, p)
                  ELSE MapPut(m, p, MapGet(m, p) - freq)
    IN  Evaluated(Sub, ps)

\* an index that lists, for each pair, only the first word found to hold it
IndexPushFirstWordOnly(ii, p, word) ==
    IF p \in DOMAIN ii THEN ii ELSE MapPut(ii, p, <<word>>)
\* inverted_index[p].push_back(word)
IndexPush(ii, p, word) ==
    LET Push(m) == MapPut(m, p, (IF p \in DOMAIN m THEN m[p] ELSE <<>>) \o <<word>>)
    IN  Evaluated(Push, ii)

\* ------------------------------------------------------------- the learner
\* a test that leaves the length of the key out
is_word_for_bpe_any_length(s) == s # <<>> /\ IsAlpha(s[1])
is_word_for_bpe(s) == s # <<>> /\ IsAlpha(s[1]) /\ Len(s) > 1

\* Step 1b: the character-level split of a word, followed by "</w>".
InitialSplit(word) == [k \in 1..Len(word) |-> <<word[k]>>] \o <<EOW>>

\* get_pair_stats: the pair frequencies recomputed from the splits.
PairsOf(symbols) == {<<symbols[k], symbols[k + 1]>> : k \in 1..(Len(symbols) - 1)}
Occurrences(symbols, p) ==
    Cardinality({k \in 1..(Len(symbols) - 1) : <<symbols[k], symbols[k + 1]>> = p})
RECURSIVE SumOcc(_, _, _, _)
SumOcc(words, wc, sp, p) ==
    IF words = {} THEN 0
    ELSE LET w == CHOOSE x \in words : TRUE
         IN  wc[w] * Occurrences(sp[w], p) + SumOcc(words \ {w}, wc, sp, p)
get_pair_stats(wc, sp) ==
    LET keys == UNION {PairsOf(sp[w]) : w \in DOMAIN wc}
    IN  [p \in keys |-> SumOcc(DOMAIN wc, wc, sp, p)]

\* Step 2: initial statistics and inverted index, one word after the other in
\* key order, one position after the other.
RECURSIVE InitPairsOfWord(_, _, _, _, _)
InitPairsOfWord(acc, word, symbols, k, freq) ==
    IF k > Len(symbols) - 1 THEN acc
    ELSE LET p == <<symbols[k], symbols[k + 1]>>
             Rest(a) == InitPairsOfWord(a, word, symbols, k + 1, freq)
         IN  Evaluated(Rest, [ps |-> StatsAdd(acc.ps, p, freq),
                              ii |-> IndexPush(acc.ii, p, word)])
RECURSIVE InitPairs(_, _, _, _)
InitPairs(acc, words, wc, sp) ==
    IF words = <<>> THEN acc
    ELSE LET word == Head(words)
             Rest(a) == InitPairs(a, Tail(words), wc, sp)
         IN  Evaluated(Rest, IF Len(sp[word]) < 2 THEN acc
                             ELSE InitPairsOfWord(acc, word, sp[word], 1, wc[word]))

\* const std::string new_token = best_pair.first + best_pair.second;
NewTokenFirstOnly(best_pair) == best_pair[1]
NewToken(best_pair) == best_pair[1] \o best_pair[2]

\* std::max_element over pair_stats: the first maximum in key order.
BestPairLastMax(ps) ==
    CHOOSE p \in DOMAIN ps :
        /\ \A q \in DOMAIN ps : ps[q] <= ps[p]
        /\ \A q \in DOMAIN ps : (ps[q] = ps[p] /\ q # p) => PairLess(q, p)
BestPair(ps) ==
    CHOOSE p \in DOMAIN ps :
        /\ \A q \in DOMAIN ps : ps[q] <= ps[p]
        /\ \A q \in DOMAIN ps : (ps[q] = ps[p] /\ q # p) => PairLess(p, q)

\* a scan that takes a merge location wherever the first symbol of the pair
\* stands, whatever follows it
RECURSIVE ScanWordFirstSymbolOnly(_, _, _, _, _, _)
ScanWordFirstSymbolOnly(acc, symbols, k, word, freq, best_pair) ==
    LET n == Len(symbols)
        new_token == NewToken(best_pair)
    IN
    IF k > n THEN acc
    ELSE IF k < n /\ symbols[k] = best_pair[1]
    THEN LET ps1 == IF k > 1
                    THEN StatsAdd(StatsSub(acc.ps, <<symbols[k - 1], best_pair[1]>>, freq),
                                  <<symbols[k - 1], new_token>>, freq)
                    ELSE acc.ps
             ii1 == IF k > 1
                    THEN IndexPush(acc.ii, <<symbols[k - 1], new_token>>, word)
                    ELSE acc.ii
             ps2 == IF k < n - 1
                    THEN StatsAdd(StatsSub(ps1, <<best_pair[2], symbols[k + 2]>>, freq),
                                  <<new_token, symbols[k + 2]>>, freq)
                    ELSE ps1
             ii2 == IF k < n - 1
                    THEN IndexPush(ii1, <<new_token, symbols[k + 2]>>, word)
                    ELSE ii1
             Rest(a) == ScanWordFirstSymbolOnly(a, symbols, k + 2, word, freq, best_pair)
         IN  Evaluated(Rest, [ps |-> ps2, ii |-> ii2, ns |-> Append(acc.ns, new_token)])
    ELSE LET Rest(a) == ScanWordFirstSymbolOnly(a, symbols, k + 1, word, freq, best_pair)
         IN  Evaluated(Rest, [ps |-> acc.ps, ii |-> acc.ii, ns |-> Append(acc.ns, symbols[k])])

\* The while loop over k of one affected word (k is 1-based here).
\* acc = [ps: pair_stats, ii: inverted_index, ns: new_symbols].
RECURSIVE ScanWord(_, _, _, _, _, _)
ScanWord(acc, symbols, k, word, freq, best_pair) ==
    LET n == Len(symbols)
        new_token == NewToken(best_pair)
    IN
    IF k > n THEN acc
    ELSE IF k < n /\ symbols[k] = best_pair[1] /\ symbols[k + 1] = best_pair[2]
    THEN LET ps1 == IF k > 1
                    THEN StatsAdd(StatsSub(acc.ps, <<symbols[k - 1], best_pair[1]>>, freq),
                                  <<symbols[k - 1], new_token>>, freq)
                    ELSE acc.ps
             ii1 == IF k > 1
                    THEN IndexPush(acc.ii, <<symbols[k - 1], new_token>>, word)
                    ELSE acc.ii
             ps2 == IF k < n - 1
                    THEN StatsAdd(StatsSub(ps1, <<best_pair[2], symbols[k + 2]>>, freq),
                                  <<new_token, symbols[k + 2]>>, freq)
                    ELSE ps1
             ii2 == IF k < n - 1
                    THEN IndexPush(ii1, <<new_token, symbols[k + 2]>>, word)
                    ELSE ii1
             Rest(a) == ScanWord(a, symbols, k + 2, word, freq, best_pair)
         IN  Evaluated(Rest, [ps |-> ps2, ii |-> ii2, ns |-> Append(acc.ns, new_token)])
    ELSE LET Rest(a) == ScanWord(a, symbols, k + 1, word, freq, best_pair)
         IN  Evaluated(Rest, [ps |-> acc.ps, ii |-> acc.ii, ns |-> Append(acc.ns, symbols[k])])

\* merge_pair (the recompute-each-step learner): the while loop over one
\* split, every adjacent best_pair replaced left to right, and the loop over
\* the splits.
RECURSIVE MergedSymbols(_, _, _)
MergedSymbols(best_pair, symbols, i) ==
    IF i > Len(symbols) THEN <<>>
    ELSE IF i < Len(symbols) /\ symbols[i] = best_pair[1] /\ symbols[i + 1] = best_pair[2]
    THEN <<NewToken(best_pair)>> \o MergedSymbols(best_pair, symbols, i + 2)
    ELSE <<symbols[i]>> \o MergedSymbols(best_pair, symbols, i + 1)
merge_pair(best_pair, sp) ==
    [w \in DOMAIN sp |-> MergedSymbols(best_pair, sp[w], 1)]

\* groupCommonTokens, the recompute-each-step loop: the pairs it selects in
\* at most n iterations, starting from the splits sp
RECURSIVE ReferenceMerges(_, _, _, _)
ReferenceMerges(wc, sp, i, n) ==
    LET ps == get_pair_stats(wc, sp)
        Rest(next) == <<BestPair(ps)>> \o ReferenceMerges(wc, next, i + 1, n)
    IN  IF i >= n \/ DOMAIN ps = {} THEN <<>>
        ELSE Evaluated(Rest, merge_pair(BestPair(ps), sp))

MergeWordSkipped(st, word, wc, best_pair) == st
\* The body of `for (const auto& word : affected_words)` for one word.
\* st = [sp: splits, ps: pair_stats, ii: inverted_index].
MergeWord(st, word, wc, best_pair) ==
    IF Len(st.sp[word]) < 2 THEN st
    ELSE LET Rebuilt(r) == [sp |-> [st.sp EXCEPT ![word] = r.ns], ps |-> r.ps, ii |-> r.ii]
         IN  Evaluated(Rebuilt, ScanWord([ps |-> st.ps, ii |-> st.ii, ns |-> <<>>],
                                         st.sp[word], 1, word, wc[word], best_pair))

\* The loop over affected_words, in the order of the vector.
RECURSIVE MergeWords(_, _, _, _)
MergeWords(st, affected, wc, best_pair) ==
    IF affected = <<>> THEN st
    ELSE LET Rest(s) == MergeWords(s, Tail(affected), wc, best_pair)
         IN  Evaluated(Rest, MergeWord(st, Head(affected), wc, best_pair))

\* The orderings std::sort may leave: any arrangement of the set with the
\* lengths descending (std::sort is not stable).
RECURSIVE Arrangements(_)
Arrangements(S) ==
    IF S = {} THEN {<<>>}
    ELSE LET longest == {x \in S : \A y \in S : Len(y) <= Len(x)}
         IN  UNION {{<<x>> \o r : r \in Arrangements(S \ {x})} : x \in longest}

\* A stable sort by descending length of a sequence of strings.
RECURSIVE ByLengthFrom(_, _)
ByLengthFrom(seq, n) ==
    IF n < 0 THEN <<>>
    ELSE SelectSeq(seq, LAMBDA x : Len(x) = n) \o ByLengthFrom(seq, n - 1)
LongestLen(seq) ==
    IF seq = <<>> THEN 0
    ELSE CHOOSE n \in {Len(seq[k]) : k \in 1..Len(seq)} :
             \A k \in 1..Len(seq) : Len(seq[k]) <= n
DescByLength(seq) == ByLengthFrom(seq, LongestLen(seq))
Reverse(seq) == [k \in 1..Len(seq) |-> seq[Len(seq) + 1 - k]]

\* final_vocab after assign(vocab.begin(), vocab.end()) and std::sort by
\* descending length.
SortOutcomes(S) ==
    IF Cardinality(S) <= MaxPermuted THEN Arrangements(S)
    ELSE {DescByLength(SortedStrings(S)), DescByLength(Reverse(SortedStrings(S)))}

\* ---- inputs of the learner
Letters == {97, 98}
Freqs == {1, 2}
RECURSIVE WordsOfLen(_)
WordsOfLen(n) ==
    IF n = 0 THEN {<<>>}
    ELSE {<<c>> \o w : c \in Letters, w \in WordsOfLen(n - 1)}
BpeWordChoices == UNION {WordsOfLen(n) : n \in 2..MaxWordLen}
\* atomic keys: a single-letter word and a punctuation byte; a punctuation
\* byte and a key of two non-letters; the empty key
AtomicChoices == {{}, {<<97>>, <<44>>}, {<<44>>, <<44, 44>>}, {<<>>}}
KeySets == {{}} \cup {{w1, w2} : w1, w2 \in BpeWordChoices}

LearnerInit ==
    /\ \E K \in KeySets, A \in AtomicChoices :
         \E f \in [K -> Freqs] :
            corpus_word_counts = [w \in K \cup A |-> IF w \in K THEN f[w] ELSE 1]
    /\ num_merges \in 0..MaxMerges
    /\ vocab = {}
    /\ bpe_word_counts = EmptyMap
    /\ splits = EmptyMap
    /\ pair_stats = EmptyMap
    /\ inverted_index = EmptyMap
    /\ merge_i = 0
    /\ lpc = "setup"
    /\ final_vocab = <<>>
    /\ last_merge = <<>>
    /\ tokens = <<>>

\* Sections 1 and 2 of groupCommonTokensParallel, with the early return.
Setup ==
    /\ lpc = "setup"
    /\ \E bpe \in {{w \in DOMAIN corpus_word_counts : is_word_for_bpe(w)}} :
       \E sp \in {[w \in bpe |-> InitialSplit(w)]},
          wc \in {[w \in bpe |-> corpus_word_counts[w]]} :
       \E r \in {InitPairs([ps |-> EmptyMap, ii |-> EmptyMap], SortedStrings(bpe), wc, sp)} :
       LET atoms == (DOMAIN corpus_word_counts) \ bpe
           chars == UNION {{<<w[k]>> : k \in 1..Len(w)} : w \in bpe}
       IN
       /\ bpe_word_counts' = wc
       /\ IF bpe = {}
          THEN /\ vocab' = atoms
               /\ final_vocab' = SortedStrings(atoms)
               /\ tokens' = final_vocab'
               /\ lpc' = "done"
               /\ UNCHANGED <<splits, pair_stats, inverted_index>>
          ELSE /\ vocab' = atoms \cup chars \cup {EOW}
               /\ splits' = sp
               /\ pair_stats' = r.ps
               /\ inverted_index' = r.ii
               /\ lpc' = "loop"
               /\ UNCHANGED <<final_vocab, tokens>>
    /\ UNCHANGED <<corpus_word_counts, num_merges, merge_i, last_merge>>
    /\ UNCHANGED <<queueVars, harnessVars, readerVars, segVars, storeVars, splitVars, mainVars, partVars>>

\* for (int i = 0; i < num_merges; ++i) { if (pair_stats.empty()) break; ...
LoopIgnoresCount(i, n, ps) == DOMAIN ps # {}
LoopContinues(i, n, ps) == i < n /\ DOMAIN ps # {}

\* One iteration of the merge loop (section 3).
MergeStep ==
    /\ lpc = "loop"
    /\ LoopContinues(merge_i, num_merges, pair_stats)
    /\ \E best_pair \in {BestPair(pair_stats)} :
       /\ vocab' = vocab \cup {NewToken(best_pair)}
       /\ last_merge' = best_pair
       /\ IF best_pair \notin DOMAIN inverted_index
          THEN /\ pair_stats' = MapErase(pair_stats, best_pair)
               /\ UNCHANGED <<splits, inverted_index>>
          ELSE \E st \in {MergeWords([sp |-> splits, ps |-> pair_stats, ii |-> inverted_index],
                                     inverted_index[best_pair], bpe_word_counts, best_pair)} :
                   /\ splits' = st.sp
                   /\ inverted_index' = MapErase(st.ii, best_pair)
                   /\ pair_stats' = MapErase(st.ps, best_pair)
    /\ merge_i' = merge_i + 1
    /\ UNCHANGED <<corpus_word_counts, num_merges, bpe_word_counts, lpc, final_vocab,
                   tokens>>
    /\ UNCHANGED <<queueVars, harnessVars, readerVars, segVars, storeVars, splitVars, mainVars, partVars>>

\* Leaving the loop (i = num_merges, or pair_stats empty) and section 4.
Finalize ==
    /\ lpc = "loop"
    /\ ~LoopContinues(merge_i, num_merges, pair_stats)
    /\ final_vocab' \in SortOutcomes(vocab)
    /\ tokens' = final_vocab'
    /\ lpc' = "done"
    /\ UNCHANGED <<corpus_word_counts, num_merges, vocab, bpe_word_counts, splits,
                   pair_stats, inverted_index, merge_i, last_merge>>
    /\ UNCHANGED <<queueVars, harnessVars, readerVars, segVars, storeVars, splitVars, mainVars, partVars>>

LearnerNext == Setup \/ MergeStep \/ Finalize

PartOff ==
    /\ sv_files = <<>>
    /\ num_producers = 1
    /\ sv_pc = "off"
    /\ sv_splits = <<>>
    /\ current_file_idx = 0
    /\ sv_i = 0
    /\ sv_j = 0

MainOff ==
    /\ mpc = "off"
    /\ exit_code = -1
    /\ artifacts = {}

SplitOff ==
    /\ split_word = <<>>
    /\ split_pc = "off"
    /\ split_start = 0
    /\ split_i = 0
    /\ split_subtokens = <<>>

StoreOff ==
    /\ statOfTokens = EmptyMap
    /\ token_stats_file = <<>>
    /\ instance = "trained"
    /\ trained_subwords = <<>>

SegmentOff ==
    /\ sentence = <<>>
    /\ spc = "off"
    /\ pos = 0
    /\ current_word = <<>>
    /\ word_subwords = <<>>
    /\ all_subwords = <<>>

LearnerOff ==
    /\ corpus_word_counts = EmptyMap
    /\ num_merges = 0
    /\ vocab = {}
    /\ bpe_word_counts = EmptyMap
    /\ splits = EmptyMap
    /\ pair_stats = EmptyMap
    /\ inverted_index = EmptyMap
    /\ merge_i = 0
    /\ lpc = "off"
    /\ final_vocab = <<>>
    /\ last_merge = <<>>
    /\ tokens = <<>>

\* --------------------------------------------------------- ThreadSafeQueue
\* Every member function runs under mutex_ and does not block while holding
\* it (cv_.wait releases it), so each critical section is one atomic step.

\* queue_.push(std::move(item))
QueuePushFront(q, item) == <<item>> \o q
QueuePush(q, item) == Append(q, item)

\* the predicate of cv_.wait in wait_and_pop
WaitPredicate(q, d) == q # <<>> \/ d

\* if (queue_.empty() && done_) return false;
ClosedIgnoringItems(q, d) == d
ClosedAndEmpty(q, d) == q = <<>> /\ d

\* The sets of blocked threads a notification may wake.
NotifyOne(waiters) == IF waiters = {} THEN {{}} ELSE {{c} : c \in waiters}
NotifyAllWakesOne(waiters) == NotifyOne(waiters)
NotifyAll(waiters) == {waiters}

\* The blocked threads in `woken` leave cv_.wait and compete for mutex_ again.
Wake(woken) ==
    /\ cv_waiters' = cv_waiters \ woken
    /\ cpc' = [c \in DOMAIN cpc |-> IF c \in woken THEN "woken" ELSE cpc[c]]

\* void push(T item)
push(item) ==
    /\ queue_' = QueuePush(queue_, item)
    /\ \E woken \in NotifyOne(cv_waiters) : Wake(woken)
    /\ UNCHANGED <<done_, chunk>>

\* void close()
close ==
    /\ done_' = TRUE
    /\ \E woken \in NotifyAll(cv_waiters) : Wake(woken)
    /\ UNCHANGED <<queue_, chunk>>

\* bool wait_and_pop(T& item), entered ("call") or resumed after a wake-up
\* ("woken"): blocks ("waiting"), returns false ("closed") or returns an
\* item ("got").
wait_and_pop(c) ==
    /\ cpc[c] \in {"call", "woken"}
    /\ IF ~WaitPredicate(queue_, done_)
       THEN /\ cpc' = [cpc EXCEPT ![c] = "waiting"]
            /\ cv_waiters' = cv_waiters \cup {c}
            /\ UNCHANGED <<queue_, chunk>>
       ELSE IF ClosedAndEmpty(queue_, done_)
       THEN /\ cpc' = [cpc EXCEPT ![c] = "closed"]
            /\ UNCHANGED <<queue_, chunk, cv_waiters>>
       ELSE /\ queue_ # <<>>
            /\ chunk' = [chunk EXCEPT ![c] = Head(queue_)]
            /\ queue_' = Tail(queue_)
            /\ cpc' = [cpc EXCEPT ![c] = "got"]
            /\ UNCHANGED cv_waiters
    /\ UNCHANGED done_

\* A spurious wake-up of cv_.wait, which std::condition_variable permits.
SpuriousWake(c) ==
    /\ cpc[c] = "waiting"
    /\ Wake({c})
    /\ UNCHANGED <<queue_, done_, chunk>>

\* ------------------------------------------------------- the queue harness
\* Two producers push tagged items, close() is called up to twice at any
\* moment, and two consumers loop on wait_and_pop until it returns false.
HProducers == {1, 2}
HConsumers == {1, 2}
HItems == {[src |-> p, seq |-> n] : p \in HProducers, n \in 1..MaxPush}
NoItem == [src |-> 0, seq |-> 0]

ReaderOff ==
    /\ file_paths = <<>>
    /\ num_threads = 0
    /\ ppc = "off"
    /\ pfile = 0
    /\ pline = 0
    /\ chunk_buffer = <<>>
    /\ files_completed_count = 0
    /\ dpc = "off"
    /\ last_reported_count = 0
    /\ progress_log = <<>>
    /\ dget = 0
    /\ local_counts = <<>>
    /\ final_counts = EmptyMap

HarnessOff ==
    /\ hpushed = <<>>
    /\ closes = 0
    /\ delivered = <<>>
    /\ pushed_open = {}

QueueInit ==
    /\ queue_ = <<>>
    /\ done_ = FALSE
    /\ cv_waiters = {}

HarnessInit ==
    /\ QueueInit
    /\ cpc = [c \in HConsumers |-> "call"]
    /\ chunk = [c \in HConsumers |-> NoItem]
    /\ hpushed = [p \in HProducers |-> 0]
    /\ closes = 0
    /\ delivered = <<>>
    /\ pushed_open = {}
    /\ LearnerOff
    /\ ReaderOff
    /\ SegmentOff
    /\ StoreOff
    /\ SplitOff
    /\ MainOff
    /\ PartOff

H_Push(p) ==
    /\ hpushed[p] < MaxPush
    /\ LET item == [src |-> p, seq |-> hpushed[p] + 1]
       IN  /\ push(item)
           /\ pushed_open' = IF done_ THEN pushed_open ELSE pushed_open \cup {item}
    /\ hpushed' = [hpushed EXCEPT ![p] = @ + 1]
    /\ UNCHANGED <<closes, delivered, learnerVars, readerVars, segVars, storeVars, splitVars, mainVars, partVars>>

H_Close ==
    /\ closes < 2
    /\ close
    /\ closes' = closes + 1
    /\ UNCHANGED <<hpushed, delivered, pushed_open, learnerVars, readerVars, segVars, storeVars, splitVars, mainVars, partVars>>

H_WaitAndPop(c) ==
    /\ wait_and_pop(c)
    /\ delivered' = IF cpc'[c] = "got"
                    THEN Append(delivered, [item |-> chunk'[c], by |-> c, closed |-> done_])
                    ELSE delivered
    /\ UNCHANGED <<hpushed, closes, pushed_open, learnerVars, readerVars, segVars, storeVars, splitVars, mainVars, partVars>>

\* the consumer's loop: call wait_and_pop again after an item
H_Again(c) ==
    /\ cpc[c] = "got"
    /\ cpc' = [cpc EXCEPT ![c] = "call"]
    /\ UNCHANGED <<queue_, done_, cv_waiters, chunk, harnessVars, learnerVars, readerVars, segVars, storeVars, splitVars, mainVars, partVars>>

H_Spurious(c) ==
    /\ SpuriousWake(c)
    /\ UNCHANGED <<harnessVars, learnerVars, readerVars, segVars, storeVars, splitVars, mainVars, partVars>>

HarnessNext ==
    \/ \E p \in HProducers : H_Push(p)
    \/ H_Close
    \/ \E c \in HConsumers : H_WaitAndPop(c)
    \/ \E c \in HConsumers : H_Again(c)
    \/ \E c \in HConsumers : H_Spurious(c)

\* Consumer threads are scheduled fairly; producers and close() may or may
\* not act, and spurious wake-ups are never guaranteed.
HarnessFair ==
    \A c \in HConsumers : WF_vars(H_WaitAndPop(c)) /\ WF_vars(H_Again(c))

SpecQueue == HarnessInit /\ [][HarnessNext]_vars /\ HarnessFair

\* ---------------------------------------------------- claims: the work queue
DeliveredItems == {delivered[k].item : k \in 1..Len(delivered)}
QueuedItems == {queue_[k] : k \in 1..Len(queue_)}
PushedItems == {x \in HItems : x.seq <= hpushed[x.src]}

C4_NeverLostNeverTwice ==
    /\ \A j, k \in 1..Len(delivered) : j # k => delivered[j].item # delivered[k].item
    /\ \A j, k \in 1..Len(queue_) : j # k => queue_[j] # queue_[k]
    /\ DeliveredItems \cap QueuedItems = {}
    /\ DeliveredItems \cup QueuedItems = PushedItems
C4_ReturnsAndBlocks ==
    \A c \in HConsumers :
        /\ (cpc[c] # "closed" /\ cpc'[c] = "closed") => (done_ /\ queue_ = <<>>)
        /\ (cpc[c] # "waiting" /\ cpc'[c] = "waiting") => (~done_ /\ queue_ = <<>>)
        /\ (cpc[c] # "got" /\ cpc'[c] = "got") => (queue_ # <<>> /\ chunk'[c] = Head(queue_))
\* C4: wait_and_pop blocks only while the queue is empty and open, returns
\* Closed only when the queue is closed and empty, and every item pushed
\* before close is returned by exactly one wait_and_pop call: at all times
\* the pushed items are the queued ones plus the delivered ones, no item is
\* delivered twice, and each item pushed before close is eventually delivered.
C4_ExactlyOnceDelivery ==
    /\ []C4_NeverLostNeverTwice
    /\ [][C4_ReturnsAndBlocks]_vars
    /\ \A x \in HItems : (x \in pushed_open) ~> (x \in DeliveredItems)
\* both consumers have returned Closed after delivering every item, one of
\* them popped after close() (it was still queued when close was called)
C4_Witness ==
    /\ \A c \in HConsumers : cpc[c] = "closed"
    /\ pushed_open = HItems
    /\ HItems \subseteq DeliveredItems
    /\ \E k \in 1..Len(delivered) : delivered[k].closed
    /\ \E j, k \in 1..Len(delivered) : delivered[j].by # delivered[k].by

C9_SecondCloseChangesNothing ==
    (closes' = closes + 1) =>
        /\ done_'
        /\ queue_' = queue_
        /\ done_ => UNCHANGED <<queue_, done_, cv_waiters, cpc, chunk>>
C9_ReturnAfterClose ==
    \A c \in HConsumers :
        (done_ /\ cpc[c] \in {"call", "woken"} /\ cpc'[c] # cpc[c]) =>
            IF queue_ # <<>> THEN cpc'[c] = "got" /\ chunk'[c] = Head(queue_)
            ELSE cpc'[c] = "closed"
\* C9: close is idempotent (a second close changes nothing and no close
\* drops a queued item) and wakes all waiters: once the queue is closed no
\* thread stays blocked in cv_.wait, and every thread inside wait_and_pop
\* eventually returns, with the front item if there is one, else with Closed.
C9_CloseIdempotentWakesAll ==
    /\ [][C9_SecondCloseChangesNothing]_vars
    /\ [][C9_ReturnAfterClose]_vars
    /\ [](done_ => cv_waiters = {})
    /\ \A c \in HConsumers :
          (done_ /\ cpc[c] \in {"waiting", "woken"}) ~> (cpc[c] \in {"got", "closed"})
\* close() called twice, both consumers were blocked and both returned Closed
C9_Witness ==
    /\ closes = 2
    /\ \A p \in HProducers : hpushed[p] = 0
    /\ \A c \in HConsumers : cpc[c] = "closed"

\* C10: FIFO per producer: an item is removed by wait_and_pop only after
\* every item the same producer pushed before it.
C10_FifoPerProducer ==
    \A k \in 1..Len(delivered) :
        \A n \in 1..(delivered[k].item.seq - 1) :
            \E j \in 1..(k - 1) :
                delivered[j].item = [src |-> delivered[k].item.src, seq |-> n]
\* all items of both producers removed, interleaved, by both consumers
C10_Witness ==
    /\ Len(delivered) = Cardinality(HItems)
    /\ delivered[1].item.src # delivered[2].item.src
    /\ delivered[1].by # delivered[2].by

\* ------------------------------------------------------------ pre-splitter
\* pre_split_word: the split test at 1-based position i (curr_char = word[i]).
SplitBeforeLowerUpperOnly(word, i) == IsLower(word[i - 1]) /\ IsUpper(word[i])
SplitBefore(word, i) ==
    \/ (IsLower(word[i - 1]) /\ IsUpper(word[i]))
    \/ (i + 1 <= Len(word) /\ IsUpper(word[i - 1]) /\ IsUpper(word[i])
        /\ IsLower(word[i + 1]))
RECURSIVE PreSplitFrom(_, _, _, _)
PreSplitFrom(word, start, i, subtokens) ==
    IF i > Len(word) THEN Append(subtokens, SubSeq(word, start, Len(word)))
    ELSE IF SplitBefore(word, i)
    THEN PreSplitFrom(word, i, i + 1, Append(subtokens, SubSeq(word, start, i - 1)))
    ELSE PreSplitFrom(word, start, i + 1, subtokens)
pre_split_word(word) ==
    IF word = <<>> THEN <<>> ELSE PreSplitFrom(word, 1, 2, <<>>)

\* ------------------------------------------------------------ corpus reader
LowerCaseOmitted(word) == word
LowerCase(word) == [k \in 1..Len(word) |-> ToLower(word[k])]

\* local_counts[key]++
CountKey(counts, key) == MapPut(counts, key, MapGet(counts, key) + 1)

RECURSIVE CountSubWords(_, _)
CountSubWords(counts, sub_words) ==
    IF sub_words = <<>> THEN counts
    ELSE LET Rest(c) == CountSubWords(c, Tail(sub_words))
         IN  Evaluated(Rest, CountKey(counts, LowerCase(Head(sub_words))))

\* the end (exclusive) of the run of alphabetic bytes starting at i
RECURSIVE AlphaRunEnd(_, _)
AlphaRunEnd(line, i) ==
    IF i <= Len(line) /\ IsAlpha(line[i]) THEN AlphaRunEnd(line, i + 1) ELSE i

\* consumer_task: the walk over the bytes of one line
RECURSIVE CountLine(_, _, _)
CountLine(counts, line, i) ==
    IF i > Len(line) THEN counts
    ELSE IF IsAlpha(line[i])
    THEN LET Run(e) ==
                 LET Rest(c) == CountLine(c, line, e)
                 IN  Evaluated(Rest, CountSubWords(counts, pre_split_word(SubSeq(line, i, e - 1))))
         IN  Evaluated(Run, AlphaRunEnd(line, i))
    ELSE IF ~IsSpace(line[i])
    THEN LET Rest(c) == CountLine(c, line, i + 1)
         IN  Evaluated(Rest, CountKey(counts, <<line[i]>>))
    ELSE CountLine(counts, line, i + 1)

\* consumer_task: the loop over the lines of a chunk
RECURSIVE CountChunk(_, _)
CountChunk(counts, lines) ==
    IF lines = <<>> THEN counts
    ELSE LET Rest(c) == CountChunk(c, Tail(lines))
         IN  Evaluated(Rest, CountLine(counts, Head(lines), 1))

\* for (pair : local_map) final_counts[pair.first] += pair.second;
AccumulateOverwrite(final, local) ==
    [k \in (DOMAIN final) \cup (DOMAIN local) |->
        IF k \in DOMAIN local THEN local[k] ELSE final[k]]
AccumulateCounts(final, local) ==
    [k \in (DOMAIN final) \cup (DOMAIN local) |-> MapGet(final, k) + MapGet(local, k)]

\* mergeTwoMaps: the smaller map is inserted into the larger
mergeTwoMaps(map1, map2) ==
    IF Cardinality(DOMAIN map1) < Cardinality(DOMAIN map2)
    THEN AccumulateCounts(map2, map1)
    ELSE AccumulateCounts(map1, map2)

\* merge_maps: the balanced merge tree over futures[start_idx..end_idx]
RECURSIVE merge_maps(_, _, _)
merge_maps(maps, start_idx, end_idx) ==
    IF start_idx = end_idx THEN maps[start_idx]
    ELSE IF start_idx + 1 = end_idx THEN mergeTwoMaps(maps[start_idx], maps[end_idx])
    ELSE LET mid_idx == start_idx + (end_idx - start_idx) \div 2
         IN  mergeTwoMaps(merge_maps(maps, start_idx, mid_idx),
                          merge_maps(maps, mid_idx + 1, end_idx))

\* int num_consumers = this->num_threads > 1 ? this->num_threads - 1 : 1;
NumConsumers(nt) == IF nt > 1 THEN nt - 1 ELSE 1
RConsumers == 1..NumConsumers(num_threads)
total_files == Len(file_paths)

\* ---- inputs of the reader: "ab a" and "aB," alternate as the lines
SampleLines == << <<97, 98, 32, 97>>, <<97, 66, 44>> >>
MkLines(n) == [k \in 1..n |-> SampleLines[((k - 1) % 2) + 1]]
\* a file that cannot be opened (it has content on disk), and files of 0, 1,
\* CHUNK_SIZE and CHUNK_SIZE + 1 lines
FileChoices ==
    {[ok |-> FALSE, lines |-> MkLines(1)]}
    \cup {[ok |-> TRUE, lines |-> MkLines(n)] : n \in {0, 1, CHUNK_SIZE, CHUNK_SIZE + 1}}
FileLists == UNION {[1..n -> FileChoices] : n \in 0..MaxFiles}

ReaderStart ==
    /\ file_paths \in FileLists
    /\ num_threads \in 1..MaxThreads
    /\ QueueInit
    /\ cpc = [c \in RConsumers |-> "call"]
    /\ chunk = [c \in RConsumers |-> <<>>]
    /\ local_counts = [c \in RConsumers |-> EmptyMap]
    /\ ppc = "open"
    /\ pfile = 1
    /\ pline = 1
    /\ chunk_buffer = <<>>
    /\ files_completed_count = 0
    /\ dpc = "start"
    /\ last_reported_count = 0
    /\ progress_log = <<>>
    /\ dget = 1
    /\ final_counts = EmptyMap
    /\ corpus_word_counts = EmptyMap
    /\ num_merges = 0
    /\ vocab = {}
    /\ bpe_word_counts = EmptyMap
    /\ splits = EmptyMap
    /\ pair_stats = EmptyMap
    /\ inverted_index = EmptyMap
    /\ merge_i = 0
    /\ lpc = "off"
    /\ final_vocab = <<>>
    /\ last_merge = <<>>
    /\ tokens = <<>>
    /\ HarnessOff
    /\ SegmentOff
    /\ StoreOff
    /\ SplitOff

ReaderInit == ReaderStart /\ MainOff /\ PartOff

learnerRest == <<num_merges, vocab, bpe_word_counts, splits, pair_stats,
                 inverted_index, merge_i, lpc, final_vocab, last_merge, tokens>>
producerVars == <<ppc, pfile, pline, chunk_buffer>>
driverVars == <<dpc, last_reported_count, progress_log, dget, final_counts>>

\* std::getline(file, line) succeeds: the file opened and a line is left
GetLineIgnoringOpen(f, n) == n <= Len(f.lines)
GetLineOk(f, n) == f.ok /\ n <= Len(f.lines)

\* ---- the producer thread
\* std::ifstream file(path); the buffer of this file starts empty
P_Open ==
    /\ ppc = "open"
    /\ pfile <= total_files
    /\ pline' = 1
    /\ chunk_buffer' = <<>>
    /\ ppc' = "read"
    /\ UNCHANGED <<pfile, queueVars, files_completed_count, driverVars, local_counts,
                   file_paths, num_threads, corpus_word_counts, learnerRest, harnessVars, segVars, storeVars, splitVars, mainVars, partVars>>

\* one iteration of while (std::getline(file, line)), pushing a full chunk
P_GetLine ==
    /\ ppc = "read"
    /\ GetLineOk(file_paths[pfile], pline)
    /\ LET buf == Append(chunk_buffer, file_paths[pfile].lines[pline])
       IN  IF Len(buf) >= CHUNK_SIZE
           THEN push(buf) /\ chunk_buffer' = <<>>
           ELSE chunk_buffer' = buf /\ UNCHANGED queueVars
    /\ pline' = pline + 1
    /\ UNCHANGED <<ppc, pfile, files_completed_count, driverVars, local_counts,
                   file_paths, num_threads, corpus_word_counts, learnerRest, harnessVars, segVars, storeVars, splitVars, mainVars, partVars>>

\* std::getline fails: the final partial chunk is pushed
P_EndOfFile ==
    /\ ppc = "read"
    /\ ~GetLineOk(file_paths[pfile], pline)
    /\ IF chunk_buffer # <<>> THEN push(chunk_buffer) ELSE UNCHANGED queueVars
    /\ ppc' = "signal"
    /\ UNCHANGED <<pfile, pline, chunk_buffer, files_completed_count, driverVars,
                   local_counts, file_paths, num_threads, corpus_word_counts,
                   learnerRest, harnessVars, segVars, storeVars, splitVars, mainVars, partVars>>

\* a producer that closes the queue at the end of every file, not after the
\* last one only
P_SignalClosing ==
    /\ ppc = "signal"
    /\ files_completed_count' = files_completed_count + 1
    /\ dpc' = IF dpc = "waiting" THEN "woken" ELSE dpc
    /\ pfile' = pfile + 1
    /\ ppc' = "open"
    /\ close
    /\ UNCHANGED <<pline, chunk_buffer, last_reported_count, progress_log,
                   dget, final_counts, local_counts, file_paths, num_threads,
                   corpus_word_counts, learnerRest, harnessVars, segVars, storeVars, splitVars, mainVars, partVars>>

\* files_completed_count++ and progress.cv.notify_one() under progress.mtx
P_Signal ==
    /\ ppc = "signal"
    /\ files_completed_count' = files_completed_count + 1
    /\ dpc' = IF dpc = "waiting" THEN "woken" ELSE dpc
    /\ pfile' = pfile + 1
    /\ ppc' = "open"
    /\ UNCHANGED <<pline, chunk_buffer, queueVars, last_reported_count, progress_log,
                   dget, final_counts, local_counts, file_paths, num_threads,
                   corpus_word_counts, learnerRest, harnessVars, segVars, storeVars, splitVars, mainVars, partVars>>

\* the producer ends without closing the queue
P_EndWithoutClose ==
    /\ ppc = "open"
    /\ pfile > total_files
    /\ ppc' = "done"
    /\ UNCHANGED <<pfile, pline, chunk_buffer, queueVars, files_completed_count,
                   driverVars, local_counts, file_paths, num_threads,
                   corpus_word_counts, learnerRest, harnessVars, segVars, storeVars, splitVars, mainVars, partVars>>

\* work_queue.close() after the last file
P_Close ==
    /\ ppc = "open"
    /\ pfile > total_files
    /\ close
    /\ ppc' = "done"
    /\ UNCHANGED <<pfile, pline, chunk_buffer, files_completed_count, driverVars,
                   local_counts, file_paths, num_threads, corpus_word_counts,
                   learnerRest, harnessVars, segVars, storeVars, splitVars, mainVars, partVars>>

\* ---- the consumer threads
R_WaitAndPop(c) ==
    /\ wait_and_pop(c)
    /\ UNCHANGED <<producerVars, files_completed_count, driverVars, local_counts,
                   file_paths, num_threads, corpus_word_counts, learnerRest, harnessVars, segVars, storeVars, splitVars, mainVars, partVars>>

\* the body of while (work_queue.wait_and_pop(chunk))
R_Count(c) ==
    /\ cpc[c] = "got"
    /\ local_counts' = [local_counts EXCEPT ![c] = CountChunk(@, chunk[c])]
    /\ cpc' = [cpc EXCEPT ![c] = "call"]
    /\ UNCHANGED <<queue_, done_, cv_waiters, chunk, producerVars, files_completed_count,
                   driverVars, file_paths, num_threads, corpus_word_counts,
                   learnerRest, harnessVars, segVars, storeVars, splitVars, mainVars, partVars>>

R_Spurious(c) ==
    /\ SpuriousWake(c)
    /\ UNCHANGED <<producerVars, files_completed_count, driverVars, local_counts,
                   file_paths, num_threads, corpus_word_counts, learnerRest, harnessVars, segVars, storeVars, splitVars, mainVars, partVars>>

\* the older driver loop: while (files_completed_count < total_files)
\* { cv.wait(lock); print; }, a wait without a predicate
DriverLoopNoPredicate ==
    /\ dpc \in {"start", "woken"}
    /\ IF dpc = "woken"
       THEN /\ progress_log' = Append(progress_log, files_completed_count)
            /\ last_reported_count' = files_completed_count
       ELSE UNCHANGED <<last_reported_count, progress_log>>
    /\ dpc' = IF files_completed_count < total_files THEN "waiting" ELSE "collect"
    /\ UNCHANGED <<dget, final_counts>>

\* ---- the driver (invoking) thread.  It holds progress.mtx from the start of
\* its loop to the end of it, except inside progress.cv.wait: what it does
\* between two waits is one critical section.
\* while (last_reported_count < total_files) { cv.wait(pred); print; update }
DriverLoop ==
    /\ dpc \in {"start", "woken"}
    /\ IF last_reported_count >= total_files
       THEN /\ dpc' = "collect"
            /\ UNCHANGED <<last_reported_count, progress_log>>
       ELSE IF files_completed_count > last_reported_count
       THEN /\ progress_log' = Append(progress_log, files_completed_count)
            /\ last_reported_count' = files_completed_count
            /\ dpc' = IF files_completed_count < total_files THEN "waiting" ELSE "collect"
       ELSE /\ dpc' = "waiting"
            /\ UNCHANGED <<last_reported_count, progress_log>>
    /\ UNCHANGED <<dget, final_counts>>

D_Report ==
    /\ DriverLoop
    /\ UNCHANGED <<producerVars, queueVars, files_completed_count, local_counts,
                   file_paths, num_threads, corpus_word_counts, learnerRest, harnessVars, segVars, storeVars, splitVars, mainVars, partVars>>

\* a spurious wake-up of progress.cv.wait
D_Spurious ==
    /\ dpc = "waiting"
    /\ dpc' = "woken"
    /\ UNCHANGED <<last_reported_count, progress_log, dget, final_counts, producerVars,
                   queueVars, files_completed_count, local_counts, file_paths,
                   num_threads, corpus_word_counts, learnerRest, harnessVars, segVars, storeVars, splitVars, mainVars, partVars>>

\* an accumulation that takes the local map of a consumer without waiting
\* for the consumer to return
D_GetWithoutWaiting ==
    /\ dpc = "collect"
    /\ dget <= NumConsumers(num_threads)
    /\ final_counts' = AccumulateCounts(final_counts, local_counts[dget])
    /\ dget' = dget + 1
    /\ UNCHANGED <<dpc, last_reported_count, progress_log, producerVars, queueVars,
                   files_completed_count, local_counts, file_paths, num_threads,
                   corpus_word_counts, learnerRest, harnessVars, segVars, storeVars, splitVars, mainVars, partVars>>

\* auto local_map = f.get(); and its accumulation into final_counts
D_Get ==
    /\ dpc = "collect"
    /\ dget <= NumConsumers(num_threads)
    /\ cpc[dget] = "closed"
    /\ final_counts' = AccumulateCounts(final_counts, local_counts[dget])
    /\ dget' = dget + 1
    /\ UNCHANGED <<dpc, last_reported_count, progress_log, producerVars, queueVars,
                   files_completed_count, local_counts, file_paths, num_threads,
                   corpus_word_counts, learnerRest, harnessVars, segVars, storeVars, splitVars, mainVars, partVars>>

\* producer_future.get(); and the copy into corpus_word_counts
D_Finish ==
    /\ dpc = "collect"
    /\ dget > NumConsumers(num_threads)
    /\ ppc = "done"
    /\ corpus_word_counts' = final_counts
    /\ dpc' = "done"
    /\ UNCHANGED <<last_reported_count, progress_log, dget, final_counts, producerVars,
                   queueVars, files_completed_count, local_counts, file_paths,
                   num_threads, learnerRest, harnessVars, segVars, storeVars, splitVars, mainVars, partVars>>

ProducerNext == P_Open \/ P_GetLine \/ P_EndOfFile \/ P_Signal \/ P_Close
DriverNext == D_Report \/ D_Get \/ D_Finish

ReaderNext ==
    \/ P_Open
    \/ P_GetLine
    \/ P_EndOfFile
    \/ P_Signal
    \/ P_Close
    \/ \E c \in RConsumers : R_WaitAndPop(c)
    \/ \E c \in RConsumers : R_Count(c)
    \/ \E c \in RConsumers : R_Spurious(c)
    \/ D_Report
    \/ D_Spurious
    \/ D_Get
    \/ D_Finish

\* Every thread that can take a step eventually takes one (OS threads);
\* spurious wake-ups are never guaranteed.
ReaderFair ==
    /\ WF_vars(ProducerNext)
    /\ WF_vars(DriverNext)
    /\ \A c \in 1..NumConsumers(MaxThreads) :
          WF_vars(c \in RConsumers /\ (R_WaitAndPop(c) \/ R_Count(c)))

SpecCorpus == ReaderInit /\ [][ReaderNext]_vars /\ ReaderFair

\* ------------------------------------------------- claims: the corpus reader
DriverReturned == dpc = "done"
DriverPastLoop == dpc \in {"collect", "done"}

\* C5: under fair scheduling the reader terminates for every file list and
\* consumer count: the producer closes the queue, every consumer drains it
\* and gets Closed, and the driver returns the merged map.
C5_ReaderTerminates ==
    <>[](/\ DriverReturned
         /\ ppc = "done" /\ done_ /\ queue_ = <<>>
         /\ \A c \in RConsumers : cpc[c] = "closed")
\* returned although no file opened or had a line, with two consumers
C5_Witness ==
    /\ DriverReturned
    /\ total_files = MaxFiles
    /\ \A k \in 1..total_files : ~file_paths[k].ok \/ file_paths[k].lines = <<>>
    /\ \E k \in 1..total_files : ~file_paths[k].ok
    /\ NumConsumers(num_threads) = 2
    /\ \A c \in RConsumers : cpc[c] = "closed"

\* the lines of the input, in order, and their counts by one sequential pass
RECURSIVE AllLines(_)
AllLines(files) ==
    IF files = <<>> THEN <<>>
    ELSE (IF Head(files).ok THEN Head(files).lines ELSE <<>>) \o AllLines(Tail(files))
SequentialCounts == CountChunk(EmptyMap, AllLines(file_paths))

\* C6: the word-count map the reader returns is the count of every token
\* over all lines, whatever the consumer count and the interleaving; the
\* merge tree over the local maps gives the same map.
C6_CountsAreSequentialCounts ==
    DriverReturned =>
        /\ corpus_word_counts = SequentialCounts
        /\ merge_maps(local_counts, 1, NumConsumers(num_threads)) = SequentialCounts
\* two consumers each counted chunks, and share a token
C6_Witness ==
    /\ DriverReturned
    /\ NumConsumers(num_threads) = 2
    /\ \E k \in DOMAIN local_counts[1] : k \in DOMAIN local_counts[2]
    /\ local_counts[1] # local_counts[2]

C8_ProducerAtUnopenable ==
    ppc \in {"read", "signal"} /\ ~file_paths[pfile].ok
C8_Step ==
    C8_ProducerAtUnopenable =>
        /\ queue_' = queue_ \/ (queue_ # <<>> /\ queue_' = Tail(queue_))
        /\ chunk_buffer' = <<>>
        /\ ppc = "read" => (files_completed_count' = files_completed_count
                            /\ ppc' \in {"read", "signal"})
        /\ (ppc = "signal" /\ ppc' # "signal") =>
              /\ files_completed_count' = files_completed_count + 1
              /\ dpc = "waiting" => dpc' = "woken"
              /\ pfile' = pfile + 1
              /\ ppc' = "open"
        /\ \A c \in RConsumers : cpc[c] # "closed" => cpc'[c] # "closed"
\* C8: a file that cannot be opened puts nothing on the queue, advances
\* files_completed_count by exactly one and signals the driver; the producer
\* goes on to the next file (or to close), nothing else is stopped and the
\* reader still returns.
C8_UnopenableFileSkipped ==
    /\ [][C8_Step]_vars
    /\ [](ppc \in {"open", "read"} => files_completed_count = pfile - 1)
    /\ \A k \in 1..MaxFiles :
          (C8_ProducerAtUnopenable /\ pfile = k)
              ~> (pfile = k + 1 /\ files_completed_count = k)
    /\ <>DriverReturned
\* an unopenable first file was skipped and the second file was counted
C8_Witness ==
    /\ DriverReturned
    /\ total_files = 2
    /\ ~file_paths[1].ok
    /\ file_paths[2].ok /\ file_paths[2].lines # <<>>
    /\ corpus_word_counts = CountChunk(EmptyMap, file_paths[2].lines)
    /\ progress_log = <<1, 2>>

\* the chunks the producer has pushed that no consumer has popped yet
BufferedChunks == Len(queue_)
\* C11: the work queue of the corpus reader is bounded: it never buffers more
\* than QueueCapacity chunks (a push on a full queue would block until a pop).
C11_QueueBounded ==
    ppc # "off" => BufferedChunks <= QueueCapacity

Init ==
    /\ LearnerInit
    /\ QueueInit /\ cpc = <<>> /\ chunk = <<>> /\ HarnessOff /\ ReaderOff
    /\ SegmentOff
    /\ StoreOff
    /\ SplitOff
    /\ MainOff
    /\ PartOff

SpecLearner == Init /\ [][LearnerNext]_vars

\* ------------------------------------------------------------ the segmenter
\* current_word.rfind(token, 0) == 0
IsPrefix(token, cur) == Len(token) <= Len(cur) /\ SubSeq(cur, 1, Len(token)) = token

\* for (const auto& token : this->tokens) ... break; : the index of the first
\* token at or after k that is a prefix of cur, 0 when there is none
RECURSIVE LastPrefixFrom(_, _, _)
LastPrefixFrom(toks, cur, k) ==
    IF k > Len(toks) THEN 0
    ELSE LET later == LastPrefixFrom(toks, cur, k + 1)
         IN  IF later > 0 THEN later ELSE IF IsPrefix(toks[k], cur) THEN k ELSE 0
RECURSIVE FirstPrefixFrom(_, _, _)
FirstPrefixFrom(toks, cur, k) ==
    IF k > Len(toks) THEN 0
    ELSE IF IsPrefix(toks[k], cur) THEN k
    ELSE FirstPrefixFrom(toks, cur, k + 1)

\* a step that always takes one byte off, whatever the length of the token
DropOneByte(cur, n) == SubSeq(cur, 2, Len(cur))
\* cur.substr(n)
DropFirst(cur, n) == SubSeq(cur, n + 1, Len(cur))

\* splitSentence: all_subwords.clear() and the construction of the iterator
SS_Begin ==
    /\ spc = "ready"
    /\ lpc = "done"
    /\ all_subwords' = <<>>
    /\ pos' = 1
    /\ spc' = "scan"
    /\ UNCHANGED <<sentence, current_word, word_subwords>>
    /\ UNCHANGED <<learnerVars, queueVars, harnessVars, readerVars, storeVars, splitVars, mainVars, partVars>>

\* One step of the loop over the matches of [a-zA-Z]+|[^a-zA-Z\s]: white
\* space is passed over, a punctuation byte is emitted, a run of letters is
\* lowercased and handed to splitWord (current_word = word + "</w>").
SS_Scan ==
    /\ spc = "scan"
    /\ IF pos > Len(sentence)
       THEN /\ spc' = "done"
            /\ UNCHANGED <<pos, current_word, word_subwords, all_subwords>>
       ELSE IF IsAlpha(sentence[pos])
       THEN \E e \in {AlphaRunEnd(sentence, pos)} :
               /\ current_word' = LowerCase(SubSeq(sentence, pos, e - 1)) \o EOW
               /\ word_subwords' = <<>>
               /\ pos' = e
               /\ spc' = "word"
               /\ UNCHANGED all_subwords
       ELSE IF IsSpace(sentence[pos])
       THEN /\ pos' = pos + 1
            /\ UNCHANGED <<spc, current_word, word_subwords, all_subwords>>
       ELSE /\ all_subwords' = Append(all_subwords, <<sentence[pos]>>)
            /\ pos' = pos + 1
            /\ UNCHANGED <<spc, current_word, word_subwords>>
    /\ UNCHANGED sentence
    /\ UNCHANGED <<learnerVars, queueVars, harnessVars, readerVars, storeVars, splitVars, mainVars, partVars>>

\* splitWord: one iteration of while (!current_word.empty())
SW_Iterate ==
    /\ spc = "word"
    /\ current_word # <<>>
    /\ Len(word_subwords) < MaxSubwords
    /\ \E k \in {FirstPrefixFrom(tokens, current_word, 1)} :
          IF k > 0
          THEN /\ word_subwords' = Append(word_subwords, tokens[k])
               /\ current_word' = DropFirst(current_word, Len(tokens[k]))
          ELSE /\ word_subwords' = Append(word_subwords, SubSeq(current_word, 1, 1))
               /\ current_word' = DropFirst(current_word, 1)
    /\ UNCHANGED <<sentence, spc, pos, all_subwords>>
    /\ UNCHANGED <<learnerVars, queueVars, harnessVars, readerVars, storeVars, splitVars, mainVars, partVars>>

\* splitWord returns; all_subwords.insert(all_subwords.end(), ...)
SW_Return ==
    /\ spc = "word"
    /\ current_word = <<>>
    /\ all_subwords' = all_subwords \o word_subwords
    /\ spc' = "scan"
    /\ UNCHANGED <<sentence, pos, current_word, word_subwords>>
    /\ UNCHANGED <<learnerVars, queueVars, harnessVars, readerVars, storeVars, splitVars, mainVars, partVars>>

TrainAndSegmentNext ==
    \/ Setup
    \/ MergeStep
    \/ Finalize
    \/ SS_Begin
    \/ SS_Scan
    \/ SW_Iterate
    \/ SW_Return

\* ---- inputs of the segmenter: word-frequency maps of words of two letters
\* and the atomic keys, and the sentences "a", "b", ",", "ba", "Ab, a"
SegKeySets == {{}} \cup {{w1, w2} : w1, w2 \in WordsOfLen(2)}
SentenceChoices ==
    {<<97>>, <<98>>, <<44>>, <<98, 97>>, <<65, 98, 44, 32, 97>>}

SegmentInit ==
    /\ \E K \in SegKeySets, A \in AtomicChoices :
         \E f \in [K -> Freqs] :
            corpus_word_counts = [w \in K \cup A |-> IF w \in K THEN f[w] ELSE 1]
    /\ num_merges \in 0..MaxMerges
    /\ vocab = {}
    /\ bpe_word_counts = EmptyMap
    /\ splits = EmptyMap
    /\ pair_stats = EmptyMap
    /\ inverted_index = EmptyMap
    /\ merge_i = 0
    /\ lpc = "setup"
    /\ final_vocab = <<>>
    /\ last_merge = <<>>
    /\ tokens = <<>>
    /\ QueueInit /\ cpc = <<>> /\ chunk = <<>> /\ HarnessOff /\ ReaderOff
    /\ sentence \in SentenceChoices
    /\ spc = "ready"
    /\ pos = 0
    /\ current_word = <<>>
    /\ word_subwords = <<>>
    /\ all_subwords = <<>>
    /\ StoreOff
    /\ SplitOff
    /\ MainOff
    /\ PartOff

SpecSegment == SegmentInit /\ [][TrainAndSegmentNext]_vars

\* ---- the sample corpus {low: 5, lower: 2, newest: 6, widest: 3}
SampleLow == <<108, 111, 119>>
SampleLower == <<108, 111, 119, 101, 114>>
SampleNewest == <<110, 101, 119, 101, 115, 116>>
SampleWidest == <<119, 105, 100, 101, 115, 116>>
\* "Low, lower!"
SampleSentence == <<76, 111, 119, 44, 32, 108, 111, 119, 101, 114, 33>>
SampleCorpus ==
    [w \in {SampleLow, SampleLower, SampleNewest, SampleWidest} |->
        IF w = SampleLow THEN 5 ELSE IF w = SampleLower THEN 2
        ELSE IF w = SampleNewest THEN 6 ELSE 3]

SampleInit ==
    /\ corpus_word_counts = SampleCorpus
    /\ num_merges \in 0..MaxSampleMerges
    /\ vocab = {}
    /\ bpe_word_counts = EmptyMap
    /\ splits = EmptyMap
    /\ pair_stats = EmptyMap
    /\ inverted_index = EmptyMap
    /\ merge_i = 0
    /\ lpc = "setup"
    /\ final_vocab = <<>>
    /\ last_merge = <<>>
    /\ tokens = <<>>
    /\ QueueInit /\ cpc = <<>> /\ chunk = <<>> /\ HarnessOff /\ ReaderOff
    /\ sentence = SampleSentence
    /\ spc = "ready"
    /\ pos = 0
    /\ current_word = <<>>
    /\ word_subwords = <<>>
    /\ all_subwords = <<>>
    /\ StoreOff
    /\ SplitOff
    /\ MainOff
    /\ PartOff

SpecSample == SampleInit /\ [][TrainAndSegmentNext]_vars

\* -------------------------------------------------------------- persistence
\* _final_token_stats.csv is modelled as the sequence of its lines (no token
\* of the inputs holds a line break).

\* trim: strips " \t\r\n" from both ends
RECURSIVE TrimLeft(_)
TrimLeft(str) ==
    IF str # <<>> /\ str[1] \in {32, 9, 13, 10} THEN TrimLeft(Tail(str)) ELSE str
RECURSIVE TrimRight(_)
TrimRight(str) ==
    IF str # <<>> /\ str[Len(str)] \in {32, 9, 13, 10}
    THEN TrimRight(SubSeq(str, 1, Len(str) - 1))
    ELSE str
trim(str) == TrimRight(TrimLeft(str))

\* removeQuotes: a field wrapped in double quotes loses them and has every
\* "" replaced by "; a field wrapped in single quotes loses them.
RECURSIVE Unescaped(_)
Unescaped(str) ==
    IF str = <<>> THEN <<>>
    ELSE IF str[1] = 34 /\ Len(str) >= 2 /\ str[2] = 34
    THEN <<34>> \o Unescaped(SubSeq(str, 3, Len(str)))
    ELSE <<str[1]>> \o Unescaped(Tail(str))
removeQuotes(str) ==
    IF Len(str) >= 2 /\ str[1] = 34 /\ str[Len(str)] = 34
    THEN Unescaped(SubSeq(str, 2, Len(str) - 1))
    ELSE IF Len(str) >= 2 /\ str[1] = 39 /\ str[Len(str)] = 39
    THEN SubSeq(str, 2, Len(str) - 1)
    ELSE str

\* s.find(sub) != std::string::npos
Contains(s, sub) ==
    \E k \in 0..(Len(s) - Len(sub)) : SubSeq(s, k + 1, k + Len(sub)) = sub
WordToken == <<116, 111, 107, 101, 110>>
WordCount == <<99, 111, 117, 110, 116>>
WordRepetitions == <<114, 101, 112, 101, 116, 105, 116, 105, 111, 110, 115>>
WordWord == <<119, 111, 114, 100>>
WordEmbedding == <<101, 109, 98, 101, 100, 100, 105, 110, 103>>
isHeaderLine(line) ==
    LET trimmed == LowerCase(trim(line))
    IN  \/ /\ Contains(trimmed, WordToken)
           /\ Contains(trimmed, WordCount) \/ Contains(trimmed, WordRepetitions)
        \/ Contains(trimmed, WordWord) /\ Contains(trimmed, WordCount)
        \/ Contains(trimmed, WordEmbedding)
        \/ trimmed \in {WordWord \o <<44>> \o WordCount,
                        WordToken \o <<44>> \o WordCount,
                        WordToken \o <<44>> \o WordRepetitions}

\* operator<< of an int
RECURSIVE Decimal(_)
Decimal(n) ==
    IF n < 10 THEN <<48 + n>> ELSE Decimal(n \div 10) \o <<48 + (n % 10)>>
\* std::stoi: white space, then digits (the value stops at the first byte
\* that is no digit); it throws when there is no digit
IsDigit(c) == c \in 48..57
RECURSIVE SkipSpace(_)
SkipSpace(s) == IF s # <<>> /\ IsSpace(s[1]) THEN SkipSpace(Tail(s)) ELSE s
RECURSIVE DigitsValue(_, _)
DigitsValue(s, acc) ==
    IF s # <<>> /\ IsDigit(s[1]) THEN DigitsValue(Tail(s), 10 * acc + (s[1] - 48))
    ELSE acc
StoiThrows(s) == LET t == SkipSpace(s) IN t = <<>> \/ ~IsDigit(t[1])
Stoi(s) == DigitsValue(SkipSpace(s), 0)

\* the position of the first comma of s, 0 when it has none
RECURSIVE CommaFrom(_, _)
CommaFrom(s, k) ==
    IF k > Len(s) THEN 0 ELSE IF s[k] = 44 THEN k ELSE CommaFrom(s, k + 1)

\* ---- the writer: calculateTokenStatsFromCounts
\* the lambda is_word_for_bpe of calculateTokenStatsFromCounts
stats_is_word_for_bpe(s) == s # <<>> /\ IsAlpha(s[1])

\* splitWord(word, subwords) as one call; the while loop is cut at
\* MaxSubwords iterations, `rest` is what is left of current_word then.
RECURSIVE SplitLoop(_, _, _)
SplitLoop(toks, current, subwords) ==
    IF current = <<>> \/ Len(subwords) >= MaxSubwords
    THEN [subwords |-> subwords, rest |-> current]
    ELSE LET k == FirstPrefixFrom(toks, current, 1)
         IN  IF k > 0
             THEN SplitLoop(toks, DropFirst(current, Len(toks[k])), Append(subwords, toks[k]))
             ELSE SplitLoop(toks, DropFirst(current, 1), Append(subwords, SubSeq(current, 1, 1)))
splitWord(toks, word) ==
    IF word = <<>> THEN [subwords |-> <<>>, rest |-> <<>>]
    ELSE SplitLoop(toks, word \o EOW, <<>>)

RECURSIVE AddSubwords(_, _, _)
AddSubwords(stats, subwords, count) ==
    IF subwords = <<>> THEN stats
    ELSE AddSubwords(MapPut(stats, Head(subwords), MapGet(stats, Head(subwords)) + count),
                     Tail(subwords), count)
\* the counts of the sub-tokens of every key of the corpus, added to stats
\* (the partition of the keys among the threads does not change the sums)
RECURSIVE CountTokens(_, _, _, _)
CountTokens(stats, toks, keys, wc) ==
    IF keys = <<>> THEN stats
    ELSE LET pre_token == Head(keys)
             Next(st) == CountTokens(st, toks, Tail(keys), wc)
         IN  IF stats_is_word_for_bpe(pre_token)
             THEN Evaluated(Next, AddSubwords(stats, splitWord(toks, pre_token).subwords,
                                              wc[pre_token]))
             ELSE Evaluated(Next, MapPut(stats, pre_token,
                                         MapGet(stats, pre_token) + wc[pre_token]))
\* statOfTokens: every learned token at 0, then the counts
TokenStats(toks, wc) ==
    CountTokens([t \in {toks[k] : k \in 1..Len(toks)} |-> 0], toks,
                SortedStrings(DOMAIN wc), wc)

\* a token as written: double quotes doubled, and the field wrapped in
\* double quotes when the token holds a double quote or a comma
RECURSIVE EscapedToken(_)
EscapedToken(token) ==
    IF token = <<>> THEN <<>>
    ELSE (IF token[1] = 34 THEN <<34, 34>> ELSE <<token[1]>>) \o EscapedToken(Tail(token))
NeedsQuotes(token) == \E k \in 1..Len(token) : token[k] \in {34, 44}
StatsLine(token, count) ==
    (IF NeedsQuotes(token) THEN <<34>> \o EscapedToken(token) \o <<34>>
     ELSE EscapedToken(token))
    \o <<44>> \o Decimal(count)
HeaderLine == WordToken \o <<44>> \o WordRepetitions
\* the header, then one line per token in the order of std::sort by a.first < b.first
StatsFile(stats) ==
    LET sorted_stats == SortedStrings(DOMAIN stats)
    IN  <<HeaderLine>> \o
        [k \in 1..Len(sorted_stats) |-> StatsLine(sorted_stats[k], stats[sorted_stats[k]])]

calculateTokenStatsFromCounts ==
    /\ instance = "trained"
    /\ spc = "done"
    /\ \A w \in DOMAIN corpus_word_counts :
          stats_is_word_for_bpe(w) => splitWord(tokens, w).rest = <<>>
    /\ \E stats \in {TokenStats(tokens, corpus_word_counts)} :
          /\ statOfTokens' = stats
          /\ token_stats_file' = StatsFile(stats)
    /\ instance' = "saved"
    /\ UNCHANGED trained_subwords
    /\ UNCHANGED <<learnerVars, queueVars, harnessVars, readerVars, segVars, splitVars, mainVars, partVars>>

\* ---- the reader of readFromFiles: readUnorderedMap
\* readCsvField: the field read from the stream and what is left of the stream
RECURSIVE QuotedField(_, _)
QuotedField(ss, field) ==
    IF ss = <<>> THEN [field |-> field, rest |-> <<>>]
    ELSE IF ss[1] = 34
    THEN IF Len(ss) >= 2 /\ ss[2] = 34
         THEN QuotedField(SubSeq(ss, 3, Len(ss)), Append(field, 34))
         ELSE LET after == SkipSpace(Tail(ss))
              IN  [field |-> field,
                   rest |-> IF after # <<>> /\ after[1] = 44 THEN Tail(after) ELSE after]
    ELSE QuotedField(Tail(ss), Append(field, ss[1]))
readCsvField(stream) ==
    LET ss == SkipSpace(stream)
        c == CommaFrom(ss, 1)
    IN  IF ss # <<>> /\ ss[1] = 34 THEN QuotedField(Tail(ss), <<>>)
        ELSE IF c = 0 THEN [field |-> ss, rest |-> <<>>]
        ELSE [field |-> SubSeq(ss, 1, c - 1), rest |-> SubSeq(ss, c + 1, Len(ss))]

RECURSIVE readUnorderedMapFrom(_, _)
readUnorderedMapFrom(corpusWordCount, lines) ==
    IF lines = <<>> THEN corpusWordCount
    ELSE LET line == trim(Head(lines))
             first == readCsvField(line)
             token == removeQuotes(trim(first.field))
             count_str_cleaned == removeQuotes(trim(readCsvField(first.rest).field))
             Next(m) == readUnorderedMapFrom(m, Tail(lines))
         IN  IF line = <<>> \/ StoiThrows(count_str_cleaned)
             THEN Next(corpusWordCount)
             ELSE Evaluated(Next, MapPut(corpusWordCount, token, Stoi(count_str_cleaned)))
readUnorderedMap(lines) == readUnorderedMapFrom(EmptyMap, lines)

\* readFromFiles: statOfTokens from the file, tokens = its keys sorted by
\* descending length, ties alphabetical
readFromFiles ==
    /\ instance = "saved"
    /\ \E stats \in {readUnorderedMap(token_stats_file)} :
          /\ statOfTokens' = stats
          /\ tokens' = DescByLength(SortedStrings(DOMAIN stats))
    /\ instance' = "readFromFiles"
    /\ trained_subwords' = all_subwords
    /\ spc' = "ready"
    /\ UNCHANGED <<sentence, pos, current_word, word_subwords, all_subwords>>
    /\ UNCHANGED <<corpus_word_counts, num_merges, vocab, bpe_word_counts, splits,
                   pair_stats, inverted_index, merge_i, lpc, final_vocab, last_merge>>
    /\ UNCHANGED token_stats_file
    /\ UNCHANGED <<queueVars, harnessVars, readerVars, splitVars, mainVars, partVars>>

\* ---- the constructor tokeniser(path2data)
\* while (std::getline(ss, segment, ',')) columns.push_back(trim(segment))
RECURSIVE Columns(_)
Columns(ss) ==
    IF ss = <<>> THEN <<>>
    ELSE LET c == CommaFrom(ss, 1)
         IN  IF c = 0 THEN <<trim(ss)>>
             ELSE <<trim(SubSeq(ss, 1, c - 1))>> \o Columns(SubSeq(ss, c + 1, Len(ss)))
\* count_str.erase(std::remove(..., '"'), ...)
WithoutQuotes(str) == SelectSeq(str, LAMBDA c : c # 34)

\* the loop over the lines: tokens and statOfTokens after the lines read
RECURSIVE ConstructFrom(_, _, _)
ConstructFrom(acc, headerSkipped, lines) ==
    IF lines = <<>> THEN acc
    ELSE LET line == trim(Head(lines))
             columns == Columns(line)
             token == removeQuotes(columns[1])
             count_str == WithoutQuotes(removeQuotes(columns[2]))
             Skip(a) == ConstructFrom(a, headerSkipped, Tail(lines))
         IN  IF line = <<>> THEN Skip(acc)
             ELSE IF ~headerSkipped /\ isHeaderLine(line)
             THEN ConstructFrom(acc, TRUE, Tail(lines))
             ELSE IF Len(columns) < 2 THEN Skip(acc)
             ELSE IF token = <<>> THEN Skip(acc)
             ELSE IF count_str = <<>> \/ count_str[1] = 44 THEN Skip(acc)
             ELSE IF StoiThrows(count_str) THEN Skip(acc)
             ELSE Evaluated(Skip, [tokens |-> Append(acc.tokens, token),
                                   stats |-> MapPut(acc.stats, token, Stoi(count_str))])

tokeniser_path2data ==
    /\ instance = "saved"
    /\ \E r \in {ConstructFrom([tokens |-> <<>>, stats |-> EmptyMap], FALSE,
                               token_stats_file)} :
          /\ tokens' = r.tokens
          /\ statOfTokens' = r.stats
    /\ instance' = "constructor"
    /\ trained_subwords' = all_subwords
    /\ spc' = "ready"
    /\ UNCHANGED <<sentence, pos, current_word, word_subwords, all_subwords>>
    /\ UNCHANGED <<corpus_word_counts, num_merges, vocab, bpe_word_counts, splits,
                   pair_stats, inverted_index, merge_i, lpc, final_vocab, last_merge>>
    /\ UNCHANGED token_stats_file
    /\ UNCHANGED <<queueVars, harnessVars, readerVars, splitVars, mainVars, partVars>>

\* Train, segment the sentence, persist, reload into a fresh instance by
\* either path, segment the sentence again.
ReloadNext ==
    \/ TrainAndSegmentNext
    \/ calculateTokenStatsFromCounts
    \/ readFromFiles
    \/ tokeniser_path2data

SpecReload == SegmentInit /\ [][ReloadNext]_vars

\* ------------------------------------------------------------ pre-splitter
\* pre_split_word as the steps of its loop; split_start and split_i hold the
\* 0-based values of the code, word[i] of the code is split_word[split_i + 1].
PS_Begin ==
    /\ split_pc = "call"
    /\ split_subtokens' = <<>>
    /\ IF split_word = <<>>
       THEN split_pc' = "done" /\ UNCHANGED <<split_start, split_i>>
       ELSE split_pc' = "loop" /\ split_start' = 0 /\ split_i' = 1
    /\ UNCHANGED split_word
    /\ UNCHANGED <<learnerVars, queueVars, harnessVars, readerVars, segVars, storeVars,
                   mainVars, partVars>>

\* one iteration of for (size_t i = 1; i < word.length(); ++i)
PS_Iterate ==
    /\ split_pc = "loop"
    /\ split_i < Len(split_word)
    /\ IF SplitBefore(split_word, split_i + 1)
       THEN /\ split_subtokens' =
                 Append(split_subtokens, SubSeq(split_word, split_start + 1, split_i))
            /\ split_start' = split_i
       ELSE UNCHANGED <<split_subtokens, split_start>>
    /\ split_i' = split_i + 1
    /\ UNCHANGED <<split_word, split_pc>>
    /\ UNCHANGED <<learnerVars, queueVars, harnessVars, readerVars, segVars, storeVars,
                   mainVars, partVars>>

\* a return that leaves the last sub-word out
PS_ReturnWithoutLast ==
    /\ split_pc = "loop"
    /\ split_i >= Len(split_word)
    /\ split_pc' = "done"
    /\ UNCHANGED <<split_word, split_start, split_i, split_subtokens>>
    /\ UNCHANGED <<learnerVars, queueVars, harnessVars, readerVars, segVars, storeVars,
                   mainVars, partVars>>

\* subtokens.emplace_back(word.substr(start)); return subtokens
PS_Return ==
    /\ split_pc = "loop"
    /\ split_i >= Len(split_word)
    /\ split_subtokens' =
          Append(split_subtokens, SubSeq(split_word, split_start + 1, Len(split_word)))
    /\ split_pc' = "done"
    /\ UNCHANGED <<split_word, split_start, split_i>>
    /\ UNCHANGED <<learnerVars, queueVars, harnessVars, readerVars, segVars, storeVars,
                   mainVars, partVars>>

PreSplitNext == PS_Begin \/ PS_Iterate \/ PS_Return

\* ---- inputs of the pre-splitter: the words over a, b, A, B up to
\* MaxSplitLen bytes, and "getHTTPResponseCode"
CaseLetters == {97, 98, 65, 66}
RECURSIVE CaseWordsOfLen(_)
CaseWordsOfLen(n) ==
    IF n = 0 THEN {<<>>}
    ELSE {<<c>> \o w : c \in CaseLetters, w \in CaseWordsOfLen(n - 1)}
GetHTTPResponseCode ==
    <<103, 101, 116, 72, 84, 84, 80, 82, 101, 115, 112, 111, 110, 115, 101,
      67, 111, 100, 101>>
PreSplitWords ==
    UNION {CaseWordsOfLen(n) : n \in 0..MaxSplitLen} \cup {GetHTTPResponseCode}

PreSplitInit ==
    /\ LearnerOff
    /\ QueueInit /\ cpc = <<>> /\ chunk = <<>> /\ HarnessOff /\ ReaderOff
    /\ SegmentOff
    /\ StoreOff
    /\ split_word \in PreSplitWords
    /\ split_pc = "call"
    /\ split_start = 0
    /\ split_i = 0
    /\ split_subtokens = <<>>
    /\ MainOff
    /\ PartOff

SpecPreSplit == PreSplitInit /\ [][PreSplitNext]_vars

\* ------------------------------------------- the partition of the file list
\* split_vector_for_producers as the steps of its two loops; sv_i, sv_j and
\* current_file_idx hold the 0-based values of the code.
\* a count that gives the files of the remainder to the last producers
CountRemainderLast(n, np, i) == (n \div np) + (IF i >= np - (n % np) THEN 1 ELSE 0)
\* size_t count = files_per_producer + (i < remainder ? 1 : 0);
ProducerCount(n, np, i) == (n \div np) + (IF i < (n % np) THEN 1 ELSE 0)

\* std::vector<std::vector<std::string>> splits(num_producers); ... for (int i = 0; ...
SV_Begin ==
    /\ sv_pc = "call"
    /\ sv_splits' = [p \in 1..num_producers |-> <<>>]
    /\ current_file_idx' = 0
    /\ sv_i' = 0
    /\ sv_j' = 0
    /\ sv_pc' = "loop"
    /\ UNCHANGED <<sv_files, num_producers>>
    /\ UNCHANGED <<learnerVars, queueVars, harnessVars, readerVars, segVars, storeVars,
                   splitVars, mainVars>>

\* splits[i].push_back(files[current_file_idx++]);
SV_Push ==
    /\ sv_pc = "loop"
    /\ sv_i < num_producers
    /\ sv_j < ProducerCount(Len(sv_files), num_producers, sv_i)
    /\ sv_splits' = [sv_splits EXCEPT ![sv_i + 1] = Append(@, sv_files[current_file_idx + 1])]
    /\ current_file_idx' = current_file_idx + 1
    /\ sv_j' = sv_j + 1
    /\ UNCHANGED <<sv_files, num_producers, sv_pc, sv_i>>
    /\ UNCHANGED <<learnerVars, queueVars, harnessVars, readerVars, segVars, storeVars,
                   splitVars, mainVars>>

\* the inner loop ends: ++i
SV_NextProducer ==
    /\ sv_pc = "loop"
    /\ sv_i < num_producers
    /\ sv_j >= ProducerCount(Len(sv_files), num_producers, sv_i)
    /\ sv_i' = sv_i + 1
    /\ sv_j' = 0
    /\ UNCHANGED <<sv_files, num_producers, sv_pc, sv_splits, current_file_idx>>
    /\ UNCHANGED <<learnerVars, queueVars, harnessVars, readerVars, segVars, storeVars,
                   splitVars, mainVars>>

\* return splits;
SV_Return ==
    /\ sv_pc = "loop"
    /\ sv_i >= num_producers
    /\ sv_pc' = "done"
    /\ UNCHANGED <<sv_files, num_producers, sv_splits, current_file_idx, sv_i, sv_j>>
    /\ UNCHANGED <<learnerVars, queueVars, harnessVars, readerVars, segVars, storeVars,
                   splitVars, mainVars>>

PartitionNext == SV_Begin \/ SV_Push \/ SV_NextProducer \/ SV_Return

\* ---- inputs: file lists of up to MaxPartFiles paths, with repeated paths,
\* and 1 to MaxProducers producers
PathNames == {<<102>>, <<103>>}
PathLists == UNION {[1..n -> PathNames] : n \in 0..MaxPartFiles}
PartitionInit ==
    /\ LearnerOff
    /\ QueueInit /\ cpc = <<>> /\ chunk = <<>> /\ HarnessOff /\ ReaderOff
    /\ SegmentOff
    /\ StoreOff
    /\ SplitOff
    /\ mpc = "off" /\ exit_code = -1 /\ artifacts = {}
    /\ sv_files \in PathLists
    /\ num_producers \in 1..MaxProducers
    /\ sv_pc = "call"
    /\ sv_splits = <<>>
    /\ current_file_idx = 0
    /\ sv_i = 0
    /\ sv_j = 0

SpecPartition == PartitionInit /\ [][PartitionNext]_vars

\* ----------------------------------------------------- the training program
\* main: Step B (the reader), the test for an empty map, Step C, the learner,
\* then the statistics and the embeddings. A throw is caught by main, which
\* prints FATAL ERROR and returns 1.
M_Aggregated ==
    /\ mpc = "aggregate"
    /\ dpc = "done"
    /\ IF corpus_word_counts = EmptyMap
       THEN /\ mpc' = "failed"
            /\ exit_code' = 1
            /\ UNCHANGED <<artifacts, lpc, num_merges>>
       ELSE /\ artifacts' = artifacts \cup {"_unique_initial_tokens.csv"}
            /\ mpc' = "learn"
            /\ lpc' = "setup"
            /\ num_merges' \in 0..MaxMerges
            /\ UNCHANGED exit_code
    /\ UNCHANGED <<corpus_word_counts, vocab, bpe_word_counts, splits, pair_stats,
                   inverted_index, merge_i, final_vocab, last_merge, tokens>>
    /\ UNCHANGED <<queueVars, harnessVars, readerVars, segVars, storeVars, splitVars,
                   partVars>>

\* calculateTokenStatsFromCounts, then generateAndSaveEmbeddings, which
\* throws when this->tokens is empty
M_Artifacts ==
    /\ mpc = "learn"
    /\ lpc = "done"
    /\ IF tokens = <<>>
       THEN /\ artifacts' = artifacts \cup {"_final_token_stats.csv"}
            /\ mpc' = "failed"
            /\ exit_code' = 1
       ELSE /\ artifacts' = artifacts \cup {"_final_token_stats.csv", "_final_embeddings.csv"}
            /\ mpc' = "done"
            /\ exit_code' = 0
    /\ UNCHANGED <<learnerVars, queueVars, harnessVars, readerVars, segVars, storeVars,
                   splitVars, partVars>>

MainNext == ReaderNext \/ M_Aggregated \/ LearnerNext \/ M_Artifacts

\* main with at least one input file (with none it throws before Step B)
MainInit ==
    /\ ReaderStart
    /\ file_paths # <<>>
    /\ mpc = "aggregate"
    /\ exit_code = -1
    /\ artifacts = {}
    /\ PartOff

SpecMain == MainInit /\ [][MainNext]_vars

\* The learner as one thread that is always scheduled.
SpecLearnerFair == Init /\ [][LearnerNext]_vars /\ WF_vars(LearnerNext)

\* ------------------------------------------------------ claims: the learner
InLoop == lpc = "loop"
AfterMerge == lpc = "loop" /\ merge_i > 0
IndexLists(p, w) ==
    p \in DOMAIN inverted_index /\ \E k \in 1..Len(inverted_index[p]) : inverted_index[p][k] = w

\* C1: after every completed merge step the incrementally maintained pair
\* statistics equal the pair frequencies recomputed from the current splits.
C1_PairStatsExact ==
    AfterMerge => pair_stats = get_pair_stats(bpe_word_counts, splits)

\* C2: at setup and after every merge step, every adjacent pair of every
\* current split is a key of pair_stats and its word is listed in the
\* inverted index of that pair.
C2_IndexCoversSplits ==
    InLoop =>
        \A w \in DOMAIN splits : \A p \in PairsOf(splits[w]) :
            p \in DOMAIN pair_stats /\ IndexLists(p, w)

\* C3: in every state of training, the symbols of every split concatenate
\* to the word followed by "</w>".
C3_SplitConcatIsWord ==
    \A w \in DOMAIN splits : Concat(splits[w]) = w \o EOW
\* a word rebuilt by two merge steps, holding a merged symbol of 3 bytes or more
C3_Witness ==
    /\ AfterMerge /\ merge_i >= 2
    /\ \E w \in DOMAIN splits : \E k \in 1..Len(splits[w]) :
          Len(splits[w][k]) >= 3 /\ splits[w][k] # EOW /\ Len(splits[w]) >= 2

Range(seq) == {seq[k] : k \in 1..Len(seq)}
LearnerDone == lpc = "done"
C12_IterationStep ==
    /\ merge_i' \in {merge_i, merge_i + 1}
    /\ (merge_i' = merge_i + 1) =>
          /\ vocab \subseteq vocab'
          /\ Cardinality(vocab') <= Cardinality(vocab) + 1
    /\ (InLoop /\ DOMAIN pair_stats = {}) =>
          (LearnerDone' /\ merge_i' = merge_i /\ Range(final_vocab') = vocab)
\* C12: the merge loop terminates normally: at most num_merges iterations,
\* each adding at most one symbol to the vocabulary; when pair_stats is empty
\* the loop stops there, and a final vocabulary is produced in every case.
C12_MergeLoopTerminates ==
    /\ [](merge_i <= num_merges)
    /\ [][C12_IterationStep]_vars
    /\ [](LearnerDone => (Range(final_vocab) = vocab /\ Len(final_vocab) = Cardinality(vocab)))
    /\ <>LearnerDone
\* the loop ended early, after at least one merge, and the vocabulary was produced
C12_Witness ==
    /\ LearnerDone
    /\ 0 < merge_i /\ merge_i < num_merges
    /\ DOMAIN pair_stats = {}
    /\ final_vocab # <<>>

\* ------------------------------------------------ claims: the sample corpus
SampleLetters == {<<c>> : c \in {108, 111, 119, 101, 114, 110, 115, 116, 105, 100}}
TokE == <<101>>
TokS == <<115>>
TokT == <<116>>
TokEs == <<101, 115>>
C13_MergeStep ==
    /\ (InLoop /\ merge_i = 0 /\ merge_i' = 1) =>
          /\ last_merge' = <<TokE, TokS>>
          /\ pair_stats[<<TokE, TokS>>] = 9
          /\ vocab' = vocab \cup {TokEs}
    /\ (InLoop /\ merge_i = 1 /\ merge_i' = 2) =>
          /\ last_merge' = <<TokEs, TokT>>
          /\ pair_stats[<<TokEs, TokT>>] = 9
\* C13: on {low:5, lower:2, newest:6, widest:3}, with 0 merges the vocabulary
\* is the ten letters and "</w>"; the first merge takes (e,s) at frequency 9
\* and adds "es"; the second takes (es,t) at frequency 9.
C13_SampleMerges ==
    /\ [][C13_MergeStep]_vars
    /\ []((LearnerDone /\ num_merges = 0) =>
            (vocab = SampleLetters \cup {EOW} /\ Range(final_vocab) = vocab))
\* two merges were made on the sample corpus
C13_Witness ==
    /\ corpus_word_counts = SampleCorpus
    /\ LearnerDone /\ merge_i = 2
    /\ <<101, 115, 116>> \in vocab

\* --------------------------------------------- claims: the final vocabulary
\* C14: the vocabulary the learner returns is sorted by descending symbol
\* length on every return path, the early return included.
C14_VocabSortedByLength ==
    LearnerDone =>
        \A k \in 1..(Len(final_vocab) - 1) : Len(final_vocab[k]) >= Len(final_vocab[k + 1])

\* C15: after finalization no symbol of the vocabulary is empty and every
\* single character of every key of the word-frequency map is in it.
C15_VocabCoversCharacters ==
    LearnerDone =>
        /\ \A v \in Range(final_vocab) : v # <<>>
        /\ \A w \in DOMAIN corpus_word_counts : \A k \in 1..Len(w) :
              <<w[k]>> \in Range(final_vocab)

BpeWordsOf(W) == {w \in DOMAIN W : is_word_for_bpe(w)}
CharactersOf(words) == UNION {{<<w[k]>> : k \in 1..Len(w)} : w \in words}
\* C16: with num_merges = 0 the vocabulary is, as a set, the characters of
\* the BPE words, the atomic tokens and "</w>", also without any BPE word.
C16_ZeroMergeVocabulary ==
    (LearnerDone /\ num_merges = 0) =>
        Range(final_vocab) =
            CharactersOf(BpeWordsOf(corpus_word_counts))
            \cup ((DOMAIN corpus_word_counts) \ BpeWordsOf(corpus_word_counts))
            \cup {EOW}

\* ------------------------------------------------------ claims: the segmenter
SortedByLength(toks) ==
    \A k \in 1..(Len(toks) - 1) : Len(toks[k]) >= Len(toks[k + 1])
Matching(toks, cur) == {k \in 1..Len(toks) : IsPrefix(toks[k], cur)}
\* the start of the run of letters that ends at position i
RECURSIVE AlphaRunStart(_, _)
AlphaRunStart(line, i) ==
    IF i >= 1 /\ IsAlpha(line[i]) THEN AlphaRunStart(line, i - 1) ELSE i + 1
\* the word splitWord was called with
WordInHand == LowerCase(SubSeq(sentence, AlphaRunStart(sentence, pos - 1), pos - 1))
InSplitWord == spc = "word"
C17_Step ==
    /\ (InSplitWord /\ word_subwords' # word_subwords) =>
          LET emitted == word_subwords'[Len(word_subwords')]
              matching == Matching(tokens, current_word)
          IN  /\ word_subwords' = Append(word_subwords, emitted)
              /\ current_word' = DropFirst(current_word, Len(emitted))
              /\ IF matching # {}
                 THEN /\ \E k \in matching :
                            /\ emitted = tokens[k]
                            /\ \A j \in matching : k <= j
                      /\ SortedByLength(tokens) =>
                            \A j \in matching : Len(tokens[j]) <= Len(emitted)
                 ELSE emitted = <<current_word[1]>>
    /\ (InSplitWord /\ ~InSplitWord') => current_word = <<>>
\* C17: splitWord works on cur = w + "</w>" until cur is empty; each step
\* emits the first symbol in vocabulary order that is a prefix of cur and
\* advances past it, or the first byte of cur when no symbol is a prefix;
\* with the vocabulary sorted by descending length the symbol emitted is the
\* longest one that is a prefix of cur.
C17_SplitWordGreedy ==
    /\ [][C17_Step]_vars
    /\ [](InSplitWord => Concat(word_subwords) \o current_word = WordInHand \o EOW)
\* a word segmented with a merged symbol chosen over a shorter prefix, and a
\* word segmented with a byte no symbol matched
C17_Witness ==
    /\ InSplitWord /\ current_word = <<>>
    /\ SortedByLength(tokens)
    /\ \E k \in 1..Len(word_subwords) :
          /\ Len(word_subwords[k]) >= 2
          /\ word_subwords[k] # EOW
          /\ <<word_subwords[k][1]>> \in Range(tokens)

SegmentDone == spc = "done"
\* the characters of the keys of the word-frequency map
TrainingCharacters == CharactersOf(DOMAIN corpus_word_counts)
\* C18: after training, splitSentence on a one-character input c that occurs
\* in the training corpus returns [c] for a non-letter and [c, "</w>"] for a
\* letter.
C18_SingleCharacter ==
    (SegmentDone /\ Len(sentence) = 1 /\ sentence \in TrainingCharacters) =>
        IF IsAlpha(sentence[1])
        THEN all_subwords = <<sentence, EOW>>
        ELSE all_subwords = <<sentence>>

\* ---------------------------------------- claims: the sample sentence
SampleExpected ==
    << SampleLow \o EOW, <<44>>, SampleLower \o EOW, <<33>> >>
\* C19 as stated: with any num_merges >= 3 the output is
\* ["low</w>", ",", "lower</w>", "!"].
C19_ThreeMergesSuffice ==
    (SegmentDone /\ corpus_word_counts = SampleCorpus /\ num_merges >= 3) =>
        all_subwords = SampleExpected
\* C19 as amended: after training on the sample corpus splitSentence of
\* "Low, lower!" gives the symbols of "low</w>", then ",", then the symbols
\* of "lower</w>", then "!"; the output is ["low</w>", ",", "lower</w>", "!"]
\* exactly when num_merges >= 15.
C19_SampleSentence ==
    (SegmentDone /\ corpus_word_counts = SampleCorpus) =>
        /\ \E i \in 1..Len(all_subwords) :
              /\ all_subwords[i] = <<44>>
              /\ Concat(SubSeq(all_subwords, 1, i - 1)) = SampleLow \o EOW
              /\ Concat(SubSeq(all_subwords, i + 1, Len(all_subwords) - 1))
                    = SampleLower \o EOW
              /\ all_subwords[Len(all_subwords)] = <<33>>
        /\ (num_merges >= 15) <=> (all_subwords = SampleExpected)
\* the expected output, reached with 15 merges
C19_Witness ==
    /\ SegmentDone
    /\ corpus_word_counts = SampleCorpus
    /\ merge_i = 15
    /\ all_subwords = SampleExpected

\* ------------------------------------------------- claims: the persistence
Reloaded == instance \in {"readFromFiles", "constructor"}
\* C20: a fresh tokeniser that reloads the vocabulary from the persisted
\* token-stats file, by readFromFiles or by the path constructor, segments
\* the sentence into exactly the symbols the trained instance returned.
C20_ReloadSegmentsAlike ==
    (Reloaded /\ SegmentDone) => all_subwords = trained_subwords
\* the same for the instance reloaded by readFromFiles alone
ReadFromFilesSegmentsAlike ==
    (instance = "readFromFiles" /\ SegmentDone) => all_subwords = trained_subwords

\* the token set V and the map Sigma of the trained instance
TrainedTokens == Range(final_vocab)
TrainedStats == TokenStats(final_vocab, corpus_word_counts)
\* C21: writing the token statistics with calculateTokenStatsFromCounts and
\* reading the file back gives the same set of tokens V and an equal map
\* Sigma: the header is not loaded as data and no data row is dropped.
C21_StatsRoundTrip ==
    instance = "readFromFiles" =>
        /\ statOfTokens = TrainedStats
        /\ DOMAIN statOfTokens = TrainedTokens
        /\ Range(tokens) = TrainedTokens
\* the file alone: what is read back is what was written
StatsFileReadsBack ==
    instance = "readFromFiles" => statOfTokens = TrainedStats

\* ----------------------------------------------- claims: the pre-splitter
PreSplitDone == split_pc = "done"
\* the positions i (0-based) at which a sub-token starts, besides 0
C22_Boundaries ==
    {Len(Concat(SubSeq(split_subtokens, 1, k))) : k \in 1..(Len(split_subtokens) - 1)}
\* the positions i (0-based) where word[i-1] is lowercase and word[i] is
\* uppercase, or word[i-1] and word[i] are uppercase and word[i+1] exists and
\* is lowercase
C22_SplitPositions ==
    {i \in 1..(Len(split_word) - 1) :
        \/ split_word[i] \in 97..122 /\ split_word[i + 1] \in 65..90
        \/ /\ split_word[i] \in 65..90 /\ split_word[i + 1] \in 65..90
           /\ i + 2 <= Len(split_word) /\ split_word[i + 2] \in 97..122}
\* C22: pre_split_word cuts a non-empty word of letters exactly at the
\* lower-to-upper positions and at the last capital of a run of capitals that
\* a lowercase letter follows, and nowhere else; a word with no such position
\* comes back as one unchanged element; "getHTTPResponseCode" gives
\* ["get", "HTTP", "Response", "Code"].
C22_PreSplitPositions ==
    (PreSplitDone /\ split_word # <<>>) =>
        /\ Concat(split_subtokens) = split_word
        /\ \A k \in 1..Len(split_subtokens) : split_subtokens[k] # <<>>
        /\ C22_Boundaries = C22_SplitPositions
        /\ C22_SplitPositions = {} => split_subtokens = <<split_word>>
        /\ split_subtokens = pre_split_word(split_word)
        /\ split_word = GetHTTPResponseCode =>
              split_subtokens = << <<103, 101, 116>>, <<72, 84, 84, 80>>,
                                   <<82, 101, 115, 112, 111, 110, 115, 101>>,
                                   <<67, 111, 100, 101>> >>
\* "getHTTPResponseCode" was split in four
C22_Witness ==
    /\ PreSplitDone
    /\ split_word = GetHTTPResponseCode
    /\ Len(split_subtokens) = 4

\* --------------------------------------------- claims: the token statistics
StatsBuilt == instance = "saved"
\* the number of occurrences of the symbol s in splitWord(w)
OccurrencesIn(s, w) ==
    LET subwords == splitWord(tokens, w).subwords
    IN  Cardinality({k \in 1..Len(subwords) : subwords[k] = s})
\* the sum over the words of W[w] times the occurrences of s in splitWord(w)
RECURSIVE WeightedOccurrences(_, _)
WeightedOccurrences(s, words) ==
    IF words = {} THEN 0
    ELSE LET w == CHOOSE x \in words : TRUE
         IN  corpus_word_counts[w] * OccurrencesIn(s, w)
             + WeightedOccurrences(s, words \ {w})
\* the keys the learner classifies as BPE words, and the atomic keys
LearnerBpeWords == {w \in DOMAIN corpus_word_counts : is_word_for_bpe(w)}
LearnerAtomicKeys == DOMAIN corpus_word_counts \ LearnerBpeWords
\* C23: the statistics builder gives every symbol s the count
\* Sigma[s] = sum over the BPE words w of W[w] * occurrences of s in
\* splitWord(w), plus W[s] when s is an atomic key; an atomic key, a
\* single-letter word included, adds its count to its own entry only.
C23_StatsFormula ==
    StatsBuilt =>
        \A s \in DOMAIN statOfTokens \cup LearnerAtomicKeys :
            MapGet(statOfTokens, s) =
                WeightedOccurrences(s, LearnerBpeWords)
                + (IF s \in LearnerAtomicKeys THEN corpus_word_counts[s] ELSE 0)

\* ------------------------------------------- claims: the training program
MainReturned == mpc \in {"done", "failed"}
EmptyCorpus == dpc = "done" /\ corpus_word_counts = EmptyMap
\* C24: training on an empty corpus (the files give no token) is not an
\* error: it ends with an empty vocabulary, the artifacts written with no
\* data row, and exit code 0.
C24_EmptyCorpusSucceeds ==
    (MainReturned /\ EmptyCorpus) =>
        /\ exit_code = 0
        /\ tokens = <<>>
        /\ artifacts = {"_unique_initial_tokens.csv", "_final_token_stats.csv",
                        "_final_embeddings.csv"}

\* ------------------------------------------------ claims: the merge step
MergeStepTaken == lpc = "loop" /\ merge_i' = merge_i + 1
\* the words the merge step for p processes: those listed in I[p]
ProcessedWords(p) ==
    IF p \in DOMAIN inverted_index THEN Range(inverted_index[p]) ELSE {}
C25_Step ==
    MergeStepTaken =>
        \A w \in ProcessedWords(last_merge') :
            splits'[w] = MergedSymbols(last_merge', splits[w], 1)
\* C25: in each merge step for the pair (a, b), the rebuilt split of every
\* processed word is the left-to-right, non-overlapping replacement of every
\* adjacent (a, b) by ab in the previous split, as merge_pair does it.
C25_RebuildIsNaiveMerge == [][C25_Step]_vars
\* [a, b, a, b, </w>] became [ab, ab, </w>] in one step
C25_Witness ==
    /\ lpc = "loop"
    /\ merge_i = 1
    /\ last_merge = << <<97>>, <<98>> >>
    /\ <<97, 98, 97, 98>> \in DOMAIN splits
    /\ splits[<<97, 98, 97, 98>>] = << <<97, 98>>, <<97, 98>>, EOW >>
\* [a, a, a, </w>] became [aa, a, </w>] in one step
OverlapMergedOnce ==
    /\ lpc = "loop"
    /\ merge_i = 1
    /\ last_merge = << <<97>>, <<97>> >>
    /\ <<97, 97, 97>> \in DOMAIN splits
    /\ splits[<<97, 97, 97>>] = << <<97, 97>>, <<97>>, EOW >>

\* ------------------------------------------ claims: the reference learner
\* the reference learner on the BPE words of the learner: its selected pairs
\* and its vocabulary
ReferencePairs ==
    ReferenceMerges(bpe_word_counts,
                    [w \in DOMAIN bpe_word_counts |-> InitialSplit(w)], 0, num_merges)
ReferenceVocabulary ==
    (DOMAIN corpus_word_counts \ DOMAIN bpe_word_counts)
    \cup CharactersOf(DOMAIN bpe_word_counts) \cup {EOW}
    \cup {NewToken(ReferencePairs[k]) : k \in 1..Len(ReferencePairs)}
C26_Step ==
    MergeStepTaken =>
        /\ merge_i' <= Len(ReferencePairs)
        /\ last_merge' = ReferencePairs[merge_i']
C26_SamePairs ==
    /\ [][C26_Step]_vars
    /\ [](LearnerDone => merge_i = Len(ReferencePairs))
\* C26: for every word-frequency map and every num_merges the incremental
\* learner selects the same pairs in the same order, and returns the same
\* vocabulary, as the learner that recomputes the pair statistics before
\* every selection and rebuilds every word with merge_pair.
C26_SameAsReference ==
    /\ C26_SamePairs
    /\ [](LearnerDone => Range(final_vocab) = ReferenceVocabulary)

\* ------------------------------------------ claims: the selected pair
\* a split holds the pair p: its first symbol immediately followed by its
\* second
HoldsPair(symbols, p) == p \in PairsOf(symbols)
\* the BPE words whose split holds p
WordsHolding(sp, p) == {w \in DOMAIN sp : HoldsPair(sp[w], p)}
\* C27: after the merge step of the selected pair (a, b), when the pair is
\* erased from pair_stats and inverted_index, the split of no BPE word holds
\* a immediately followed by b: the words the inverted index listed for the
\* pair were all the words holding it.
C27_Step ==
    MergeStepTaken =>
        /\ WordsHolding(splits, last_merge') \subseteq
               ProcessedWords(last_merge')
        /\ WordsHolding(splits', last_merge') = {}
C27_NoSelectedPairLeft == [][C27_Step]_vars
\* the pair (a, b) was held by two words, twice by one of them, and the step
\* has rebuilt both
C27_Witness ==
    /\ lpc = "loop"
    /\ merge_i = 1
    /\ last_merge = << <<97>>, <<98>> >>
    /\ DOMAIN splits = {<<97, 98>>, <<97, 98, 97, 98>>}
    /\ splits[<<97, 98>>] = << <<97, 98>>, EOW >>
    /\ splits[<<97, 98, 97, 98>>] = << <<97, 98>>, <<97, 98>>, EOW >>

\* C28: in every merge iteration the selected pair is held by the split of
\* at least one BPE word at selection time, and the token the iteration adds
\* to the vocabulary is a symbol of some split right after the step.
C28_Step ==
    MergeStepTaken =>
        /\ WordsHolding(splits, last_merge') # {}
        /\ \E w \in DOMAIN splits' : NewToken(last_merge') \in Range(splits'[w])
C28_SelectedPairOccurs == [][C28_Step]_vars

\* ------------------------------------------ claims: running out of pairs
\* the learner called with a num_merges larger than the merges the corpus
\* allows
ExhaustInit ==
    /\ \E K \in KeySets, A \in AtomicChoices :
         \E f \in [K -> Freqs] :
            corpus_word_counts = [w \in K \cup A |-> IF w \in K THEN f[w] ELSE 1]
    /\ num_merges = MaxExhaustMerges
    /\ vocab = {}
    /\ bpe_word_counts = EmptyMap
    /\ splits = EmptyMap
    /\ pair_stats = EmptyMap
    /\ inverted_index = EmptyMap
    /\ merge_i = 0
    /\ lpc = "setup"
    /\ final_vocab = <<>>
    /\ last_merge = <<>>
    /\ tokens = <<>>
    /\ QueueInit /\ cpc = <<>> /\ chunk = <<>> /\ HarnessOff /\ ReaderOff
    /\ SegmentOff
    /\ StoreOff
    /\ SplitOff
    /\ MainOff
    /\ PartOff
SpecExhaust == ExhaustInit /\ [][LearnerNext]_vars
\* the merge loop was left by the break on an empty pair_stats, with
\* iterations of num_merges still unused
StoppedOnEmptyStats ==
    /\ LearnerDone
    /\ DOMAIN bpe_word_counts # {}
    /\ merge_i < num_merges
    /\ DOMAIN pair_stats = {}
\* C29: when num_merges is larger than the number of merges that can be done
\* and the loop stops on an empty pair_stats, every BPE word has been merged
\* completely: its split is the single symbol word + "</w>", and that symbol
\* is in the vocabulary.
C29_CompleteWhenStatsEmpty ==
    StoppedOnEmptyStats =>
        \A w \in DOMAIN bpe_word_counts :
            /\ splits[w] = <<w \o EOW>>
            /\ (w \o EOW) \in Range(final_vocab)
\* two words of four letters, one holding the same pair twice in a row, were
\* merged completely
C29_Witness ==
    /\ StoppedOnEmptyStats
    /\ DOMAIN bpe_word_counts = {<<97, 97, 97, 97>>, <<97, 98, 97, 98>>}
    /\ splits[<<97, 97, 97, 97>>] = << <<97, 97, 97, 97>> \o EOW >>
\* the runs of this specification never use all of num_merges
ExhaustedBeforeCount == (LearnerDone /\ DOMAIN bpe_word_counts # {}) => merge_i < num_merges

\* ------------------------------------------ claims: the classification
\* a key the learner must keep whole: empty, starting with a non-letter, or
\* one character long
AtomicKey(key) == key = <<>> \/ ~IsAlpha(key[1]) \/ Len(key) = 1
\* the words the inverted index lists under some pair
IndexedWords == UNION {Range(inverted_index[p]) : p \in DOMAIN inverted_index}
SetupDone == lpc # "setup"
\* C30: setup classifies every key of the word counts. An atomic key is in
\* the vocabulary and never is a key of splits or bpe_word_counts, nor a word
\* counted in pair_stats or listed in inverted_index; every other key is a
\* BPE word, and its split right after setup is its characters followed by
\* "</w>".
C30_Classification ==
    SetupDone =>
        /\ \A key \in DOMAIN corpus_word_counts :
              IF AtomicKey(key)
              THEN /\ key \in vocab
                   /\ key \notin DOMAIN splits
                   /\ key \notin DOMAIN bpe_word_counts
                   /\ key \notin IndexedWords
              ELSE /\ key \in DOMAIN bpe_word_counts
                   /\ bpe_word_counts[key] = corpus_word_counts[key]
                   /\ key \in DOMAIN splits
                   /\ (lpc = "loop" /\ merge_i = 0) =>
                          splits[key] = [k \in 1..Len(key) |-> <<key[k]>>] \o <<EOW>>
        /\ (lpc = "loop" /\ merge_i = 0) =>
              pair_stats = get_pair_stats(bpe_word_counts, splits)
\* setup has classified a one-letter key and a punctuation key as atomic next
\* to two BPE words
C30_Witness ==
    /\ lpc = "loop"
    /\ merge_i = 0
    /\ {<<97>>, <<44>>} \subseteq DOMAIN corpus_word_counts
    /\ {<<97>>, <<44>>} \subseteq vocab
    /\ Cardinality(DOMAIN splits) = 2
\* the empty key is classified as atomic
C30_EmptyKeyAtomic ==
    /\ SetupDone
    /\ <<>> \in DOMAIN corpus_word_counts
    /\ <<>> \in vocab

\* ------------------------------------------ claims: entries without a match
\* the merge loop is about to select a pair that the inverted index lists
AtSelection ==
    /\ lpc = "loop"
    /\ LoopContinues(merge_i, num_merges, pair_stats)
    /\ BestPair(pair_stats) \in DOMAIN inverted_index
\* splits, pair_stats and inverted_index after the first k words of the
\* affected_words of the selected pair
AfterWords(k) ==
    MergeWords([sp |-> splits, ps |-> pair_stats, ii |-> inverted_index],
               SubSeq(inverted_index[BestPair(pair_stats)], 1, k),
               bpe_word_counts, BestPair(pair_stats))
\* the k-th affected word holds no occurrence of the selected pair when its
\* turn comes
NoMatchAt(k) ==
    ~HoldsPair(AfterWords(k - 1).sp[inverted_index[BestPair(pair_stats)][k]],
               BestPair(pair_stats))
\* C31: in a merge step, a word of the affected_words whose split holds no
\* adjacent occurrence of the selected pair when it is processed (a stale
\* entry, or a later listing of a word the step has rebuilt already) leaves
\* splits, pair_stats and inverted_index as they were.
C31_NoMatchNoChange ==
    AtSelection =>
        \A k \in 1..Len(inverted_index[BestPair(pair_stats)]) :
            NoMatchAt(k) => AfterWords(k) = AfterWords(k - 1)
\* a word listed twice for the selected pair: its first entry rebuilds it,
\* its second entry finds no match
C31_Witness ==
    /\ AtSelection
    /\ Len(inverted_index[BestPair(pair_stats)]) >= 2
    /\ inverted_index[BestPair(pair_stats)][1] = inverted_index[BestPair(pair_stats)][2]
    /\ ~NoMatchAt(1)
    /\ NoMatchAt(2)
\* a stale entry: the word held no occurrence of the pair already before the
\* step
C31_StaleEntry ==
    /\ AtSelection
    /\ \E k \in 1..Len(inverted_index[BestPair(pair_stats)]) :
          ~HoldsPair(splits[inverted_index[BestPair(pair_stats)][k]], BestPair(pair_stats))

\* ------------------------------------------ claims: the index guard
\* C32: in every state of the merge loop every key of pair_stats is a key of
\* inverted_index, so the selected pair is always found in the index and the
\* branch that erases it from pair_stats and continues is never taken.
C32_StatsKeysIndexed ==
    InLoop => DOMAIN pair_stats \subseteq DOMAIN inverted_index
\* a selection late in the loop, when the index also lists pairs that
\* pair_stats has lost
C32_Witness ==
    /\ AtSelection
    /\ merge_i >= 3
    /\ DOMAIN pair_stats # DOMAIN inverted_index
    /\ Cardinality(DOMAIN splits) = 2

\* ------------------------------------------ claims: who writes the maps
\* the driver takes the local map of one more consumer in this step
MapTaken == dget' # dget
\* the local map of consumer c is written in this step
LocalWritten(c) == local_counts'[c] # local_counts[c]
\* every map has one writer at a time: a local map is written only by the
\* counting step of its own consumer, final_counts only by the driver's
\* accumulation, which reads the local map of a consumer that has returned,
\* and a consumer that has returned never runs again
SingleWriterStep ==
    /\ \A c \in RConsumers :
          /\ LocalWritten(c) =>
                /\ cpc[c] = "got" /\ cpc'[c] = "call"
                /\ \A d \in RConsumers \ {c} : ~LocalWritten(d)
                /\ final_counts' = final_counts
          /\ cpc[c] = "closed" => cpc'[c] = "closed" /\ ~LocalWritten(c)
    /\ final_counts' # final_counts => MapTaken
    /\ MapTaken =>
          /\ dpc = "collect"
          /\ dget' = dget + 1
          /\ cpc[dget] = "closed"
          /\ local_counts' = local_counts
\* C33 as stated: one writer per map, and the accumulation into final_counts
\* takes place only when all the consumers have returned.
C33_MergeAfterAllConsumers ==
    [][/\ SingleWriterStep
       /\ MapTaken => \A c \in RConsumers : cpc[c] = "closed"]_vars
\* C33: in the corpus reader no word-count map is written by two threads at
\* a time: each consumer writes only its own local map, and the driver adds
\* a local map to final_counts only after the consumer that owns it has
\* returned (other consumers may still be counting).
C33_SingleWriter == [][SingleWriterStep]_vars
\* the driver has added the map of the first consumer to final_counts while
\* the second consumer holds a chunk it has not counted yet
C33_Witness ==
    /\ dpc = "collect"
    /\ NumConsumers(num_threads) = 2
    /\ dget = 2
    /\ final_counts # EmptyMap
    /\ cpc[2] = "got"

\* ------------------------------------------ claims: close after the pushes
\* a chunk is enqueued in this step
ChunkPushed == Len(queue_') > Len(queue_)
\* the queue is closed in this step
QueueClosed == ~done_ /\ done_'
C34_Step ==
    /\ ChunkPushed => ~done_ /\ ~done_'
    /\ QueueClosed =>
          /\ ppc = "open" /\ pfile > total_files /\ ppc' = "done"
          /\ queue_' = queue_
\* C34: in every execution of the corpus reader the producer closes the
\* queue only after it has pushed the last chunk of the last file, it never
\* pushes after the close, and so every chunk it enqueued is popped by a
\* consumer: the reader returns with an empty queue.
C34_CloseAfterLastPush ==
    /\ [][C34_Step]_vars
    /\ [](done_ => ppc = "done")
    /\ [](DriverReturned => done_ /\ queue_ = <<>>)
    /\ (done_ ~> queue_ = <<>>)
\* the queue was closed while chunks of two files were still waiting in it
C34_Witness ==
    /\ done_
    /\ total_files = 2
    /\ Len(queue_) >= 2
    /\ \A c \in RConsumers : cpc[c] # "closed"

\* ------------------------------------------ claims: splitWord terminates
\* one iteration of the while loop of splitWord is taken in this step
SplitWordIterates == spc = "word" /\ Len(word_subwords') = Len(word_subwords) + 1
\* C35: for every word and every vocabulary that training can leave in
\* tokens, every iteration of the loop of splitWord strictly shortens
\* current_word, so the loop terminates.
C35_EveryIterationShortens ==
    [][SplitWordIterates => Len(current_word') < Len(current_word)]_vars
\* the loop has run to its cut without consuming a byte: the empty token is
\* the only prefix of current_word
C35_LoopsOnEmptyToken ==
    /\ spc = "word"
    /\ Len(word_subwords) = MaxSubwords
    /\ \A k \in 1..Len(word_subwords) : word_subwords[k] = <<>>
    /\ current_word # <<>>

C37_StatsKeysAreVocabulary ==
    instance = "saved" =>
        /\ DOMAIN statOfTokens = Range(tokens)
        /\ Cardinality(DOMAIN statOfTokens) = Len(tokens)
\* every token has an entry in statOfTokens
C37_EveryTokenHasEntry ==
    instance = "saved" => Range(tokens) \subseteq DOMAIN statOfTokens

\* ------------------------------------------ claims: the partition
PartitionDone == sv_pc = "done"
\* C38: split_vector_for_producers, for num_producers >= 1, gives one list
\* per producer; the lists one after the other are the file list (every
\* file goes to exactly one producer, in the original order within and
\* across producers), their sizes differ by at most one, and the producers
\* of lowest index are the ones that get a file of the remainder.
C38_PartitionByCount ==
    PartitionDone =>
        /\ Len(sv_splits) = num_producers
        /\ Concat(sv_splits) = sv_files
        /\ \A a, b \in 1..num_producers :
              a < b => /\ Len(sv_splits[a]) >= Len(sv_splits[b])
                       /\ Len(sv_splits[a]) - Len(sv_splits[b]) <= 1
        /\ \A a \in 1..num_producers :
              Len(sv_splits[a]) = (Len(sv_files) \div num_producers)
                                  + (IF a <= (Len(sv_files) % num_producers) THEN 1 ELSE 0)
\* five files over three producers: sizes 2, 2, 1
C38_Witness ==
    /\ PartitionDone
    /\ Len(sv_files) = 5
    /\ num_producers = 3
    /\ Len(sv_splits[1]) = 2 /\ Len(sv_splits[2]) = 2 /\ Len(sv_splits[3]) = 1
\* more producers than files: the last producer gets nothing
C38_EmptyProducer ==
    /\ PartitionDone
    /\ Len(sv_files) = 2
    /\ num_producers = 3
    /\ sv_splits[3] = <<>>

\* ------------------------------------------ claims: the pre-splitter keeps the word
\* the number of bytes in the first k sub-words
BytesBefore(k) == Len(Concat(SubSeq(split_subtokens, 1, k - 1)))
\* C39: the sub-words pre_split_word returns are non-empty pieces of the
\* word that follow one another without gap or overlap, in order, and
\* together are the word: no byte is dropped or repeated. While the loop
\* runs, the sub-words emitted so far end where the pending piece starts.
\* For the empty word the result is the empty list.
C39_PreSplitKeepsTheWord ==
    /\ split_pc = "loop" =>
          /\ Concat(split_subtokens) = SubSeq(split_word, 1, split_start)
          /\ split_start < split_i
    /\ PreSplitDone =>
          /\ \A k \in 1..Len(split_subtokens) :
                /\ split_subtokens[k] # <<>>
                /\ split_subtokens[k] =
                      SubSeq(split_word, BytesBefore(k) + 1,
                             BytesBefore(k) + Len(split_subtokens[k]))
          /\ BytesBefore(Len(split_subtokens) + 1) = Len(split_word)
          /\ split_word = <<>> <=> split_subtokens = <<>>
\* a word of five bytes was cut in three
C39_Witness ==
    /\ PreSplitDone
    /\ Len(split_word) = 5
    /\ Len(split_subtokens) = 3
\* the empty word gave the empty list
C39_EmptyWord ==
    /\ PreSplitDone
    /\ split_word = <<>>
    /\ split_subtokens = <<>>

====
